---- MODULE Spec2Model ----
(***************************************************************************)
(* Verification model of the road-quality analysis pipeline:               *)
(*   - the image quality gate (ImageQualityService.evaluate),              *)
(*   - the pipeline orchestrator (RoadAnalysisPipeline.process_image),     *)
(*   - duplicate-checked persistence (DatabasePipeline / DatabaseService), *)
(*   - the sliding-window rate limiter (run_parallel_analysis.RateLimiter),*)
(*   - the defect metrics (RoadQualityMetrics.from_model_output),          *)
(*   - the batch run over street points (process_batch_parallel),          *)
(*   - whole runs (run_parallel_analysis.main, process_all_street_points), *)
(*   - the client calls, the paginated feature fetch and the headings.     *)
(*   - the detection model and its service (YOLOv8RoadModel),              *)
(*   - the pairing of downloaded images with the provider's entries,       *)
(*   - DatabaseService.transaction(), and the TOID session statistics.     *)
(*                                                                         *)
(* Scores are floats in the source.  They are carried here as integers in  *)
(* thousandths (a score of 100.0 is 100000); the inputs are chosen so that *)
(* every division of the source is exact in thousandths.  Fractions of     *)
(* pixels (dark_frac, bright_frac) are carried in percent.                 *)
(* Time is carried in tenths of a second (60 s = 600, 0.1 s = 1).          *)
(* Compass headings are carried in tenths of a degree (360 = 3600).        *)
(***************************************************************************)
EXTENDS Integers, Sequences, FiniteSets, TLC

VARIABLES
    \* ---- quality gate / orchestrator harness ----
    gImage,         \* the image handed to evaluate / process_image
    gPc,            \* "ready" | "evaluated" | "processed"
    gQuality,       \* ImageQualityMetrics returned by the last evaluate
    gResult,        \* PipelineResult returned by the last process_image
    gSegCalls,      \* calls of RoadSegmentation.detect_road_surface so far
    gHeurCalls,     \* calls of check_image_quality so far
    gCalls,         \* services the last process_image called, in call order
    gRaised,        \* whether the last evaluate / process_image raised
    \* ---- persistence store (PostgreSQL tables) ----
    photos,         \* rows of table photos
    quality_results,        \* rows of table quality_results
    road_analysis_results,  \* rows of table road_analysis_results
    \* ---- workers running DatabasePipeline.process_image_with_db ----
    pc,             \* position of each worker in process_image_with_db
    call,           \* arguments and per-call bookkeeping of each worker
    res,            \* dict returned by the worker's last call
    save_to_db,     \* DatabasePipeline.save_to_db of each worker's pipeline
    calls_started,  \* number of process_image_with_db calls started
    log,            \* completed calls, in completion order
    \* ---- rate limiter ----
    clock,          \* time.time(), in tenths of a second
    requests_times, \* RateLimiter.requests_times
    lock,           \* holder of RateLimiter.lock (0 = free)
    rl_pc,          \* position of each worker in wait_if_needed
    rl_now,         \* local variable now of each worker
    rl_oldest,      \* local variable oldest_request (-1 = did not block)
    rl_wake,        \* time at which the worker's sleep ends
    rl_calls,       \* number of wait_if_needed calls started
    releases,       \* history: calls that returned, in return order
    \* ---- RoadQualityMetrics.from_model_output harness ----
    mPredictions,   \* the model_predictions dict handed to from_model_output
    mPc,            \* "ready" | "built"
    mMetrics,       \* RoadQualityMetrics returned by from_model_output
    \* ---- batch run: process_batch_parallel over street points ----
    pt_pc,          \* position of each worker in process_single_street_point
    pt,             \* the point each worker processes and its image tallies
    pt_result,      \* dict returned by the worker's process_single_street_point
    points_started, \* number of points submitted so far
    batch_results,  \* batch_results of process_batch_parallel
    collected,      \* history: the point results collected, in order
    \* ---- whole runs: run_parallel_analysis.main, process_all_street_points ----
    run_args,       \* which run it is, rows of street_points, start_offset, batch_size
    run_pc,         \* "start" | "select" | "batch" | "finished" | "no_points", or the
                    \* exception that ended the run: "db_error" | "type_error" |
                    \* "zero_division"
    street_points,  \* list returned by get_all_unprocessed_street_points
    batch_start,    \* batch_start of main / offset of process_all_street_points
    batch_points,   \* the points of the current batch (batch / batch_points)
    cursor,         \* number of points of the current batch already taken
    overall_stats,  \* overall_stats of main / the counters of process_all_street_points
    attempted,      \* history: ids of the points handed to the pipeline, in order
    limiter_calls,  \* history: number of rate_limiter.wait_if_needed calls
    provider_requests, \* history: number of requests sent to the image provider
    sp_photos,      \* photos rows saved by the run: the point and the stored street_point_id
    \* ---- client calls, pagination and compass headings ----
    cIn,            \* the call and its input
    cPc,            \* "ready" | "done"
    cOut            \* what the call produced

gate_vars == <<gImage, gPc, gQuality, gResult, gSegCalls, gHeurCalls, gCalls, gRaised>>
store_vars == <<photos, quality_results, road_analysis_results>>
worker_vars == <<pc, call, res, save_to_db, calls_started, log>>
db_vars == <<store_vars, worker_vars>>
rl_vars == <<clock, requests_times, lock, rl_pc, rl_now, rl_oldest, rl_wake, rl_calls, releases>>
metrics_vars == <<mPredictions, mPc, mMetrics>>
batch_vars == <<pt_pc, pt, pt_result, points_started, batch_results, collected>>
run_vars == <<run_args, run_pc, street_points, batch_start, batch_points, cursor,
              overall_stats, attempted, limiter_calls, provider_requests, sp_photos>>
client_vars == <<cIn, cPc, cOut>>
vars == <<gate_vars, db_vars, rl_vars, metrics_vars, batch_vars, run_vars, client_vars>>

\* ------------------------------------------------------------------------
\* Small helpers
\* ------------------------------------------------------------------------
Min2(a, b) == IF a <= b THEN a ELSE b

Max2(a, b) == IF a >= b THEN a ELSE b

Min3(a, b, c) == Min2(a, Min2(b, c))

SetMin(S) == CHOOSE x \in S : \A y \in S : x <= y

SeqToSet(s) == { s[i] : i \in 1..Len(s) }

\* ------------------------------------------------------------------------
\* Configuration (QualityConfig defaults)
\* ------------------------------------------------------------------------
Scale == 1000

blur_threshold == 50

min_width == 400

min_height == 300

dark_threshold == 20

bright_threshold == 80

\* QualityConfig.min_road_surface_percentage.  evaluate and the segmentation
\* never read it: has_sufficient_road comes from the literals of
\* detect_road_surface.
min_road_surface_percentage == 25

\* ------------------------------------------------------------------------
\* Failure reasons (ImageFailureReason)
\* ------------------------------------------------------------------------
TOO_BLURRY == "too_blurry"

TOO_DARK == "too_dark"

TOO_BRIGHT == "too_bright"

RESOLUTION_TOO_SMALL == "resolution_too_small"

INSUFFICIENT_ROAD_SURFACE == "insufficient_road_surface"

FILE_NOT_FOUND == "file_not_found"

PROCESSING_ERROR == "processing_error"

\* ------------------------------------------------------------------------
\* Stage 1 heuristics (heuristics.py).  An image is described by the pixel
\* statistics the heuristics compute from it.
\* ------------------------------------------------------------------------
is_blurry(img) == <<img.lap_var < blur_threshold, img.lap_var>>

is_exposed_poorly(img) ==
    <<img.dark_frac > dark_threshold \/ img.bright_frac > bright_threshold,
      <<img.dark_frac, img.bright_frac>> >>

is_too_small(img) ==
    <<img.width < min_width \/ img.height < min_height, <<img.width, img.height>> >>

check_image_quality(img) ==
    [blurry |-> is_blurry(img),
     poor_exposure |-> is_exposed_poorly(img),
     too_small |-> is_too_small(img),
     usable |-> ~(is_blurry(img)[1] \/ is_exposed_poorly(img)[1] \/ is_too_small(img)[1])]

\* ------------------------------------------------------------------------
\* Stage 2 segmentation (segmentation.py).  seg_path is the branch taken:
\* "ai" (model loaded and inference worked), "fallback" (classical vision)
\* or "fallback_error" (the fallback could not read or process the image).
\* ------------------------------------------------------------------------
detect_road_surface(img) ==
    IF img.seg_path = "ai" THEN <<img.road_pct, img.road_pct >= 10>>
    ELSE IF img.seg_path = "fallback" THEN <<img.road_pct, img.road_pct >= 20>>
    ELSE <<0, FALSE>>

\* ------------------------------------------------------------------------
\* ImageQualityMetrics
\* ------------------------------------------------------------------------
ImageQualityMetrics(overall, usable, reasons, blur, exposure, size, road, sufficient) ==
    [overall_score |-> overall,
     is_usable |-> usable,
     failure_reasons |-> reasons,
     blur_score |-> blur,
     exposure_score |-> exposure,
     size_score |-> size,
     road_surface_percentage |-> road,
     has_sufficient_road |-> sufficient]

create_failed(failure_reason) ==
    ImageQualityMetrics(0, FALSE, <<failure_reason>>, 0, 0, 0, 0, FALSE)

NoQuality == ImageQualityMetrics(0, FALSE, <<>>, 0, 0, 0, 0, FALSE)

\* ------------------------------------------------------------------------
\* ImageQualityService
\* ------------------------------------------------------------------------
calculate_blur_score(blur_result) ==
    IF blur_result[1]
    THEN Min2(100 * Scale, Max2(0, blur_result[2] * Scale))
    ELSE 100 * Scale

calculate_exposure_score(exposure_result) ==
    IF exposure_result[1]
    THEN Max2(0, 100 * Scale - Max2(exposure_result[2][1], exposure_result[2][2]) * Scale)
    ELSE 100 * Scale

calculate_size_score(size_result) ==
    IF size_result[1]
    THEN LET min_pixels == 400 * 300
             actual_pixels == size_result[2][1] * size_result[2][2]
         \* (actual_pixels / min_pixels) * 100 in thousandths, kept within 32 bits
         IN  Min2(100 * Scale, (actual_pixels * 100) \div (min_pixels \div Scale))
    ELSE 100 * Scale

\* Variant of calculate_overall_score without the upper clamp.
calculate_overall_score_no_upper_clamp(blur_score, exposure_score, size_score, road_percentage) ==
    LET heuristic_score == (blur_score * 4 + exposure_score * 3 + size_score * 3) \div 10
        road_bonus == IF road_percentage >= 25
                      THEN Min2(20 * Scale, (road_percentage * Scale) \div 5)
                      ELSE -30 * Scale
    IN  Max2(0, heuristic_score + road_bonus)

calculate_overall_score(blur_score, exposure_score, size_score, road_percentage) ==
    LET heuristic_score == (blur_score * 4 + exposure_score * 3 + size_score * 3) \div 10
        road_bonus == IF road_percentage >= 25
                      THEN Min2(20 * Scale, (road_percentage * Scale) \div 5)
                      ELSE -30 * Scale
    IN  Max2(0, Min2(100 * Scale, heuristic_score + road_bonus))

\* Variant of get_heuristic_failure_reasons that forgets the bright test.
get_heuristic_failure_reasons_no_bright(h) ==
    (IF h.blurry[1] THEN <<TOO_BLURRY>> ELSE <<>>)
    \o (IF h.poor_exposure[1] /\ h.poor_exposure[2][1] > dark_threshold
        THEN <<TOO_DARK>> ELSE <<>>)
    \o (IF h.too_small[1] THEN <<RESOLUTION_TOO_SMALL>> ELSE <<>>)

get_heuristic_failure_reasons(h) ==
    (IF h.blurry[1] THEN <<TOO_BLURRY>> ELSE <<>>)
    \o (IF h.poor_exposure[1] /\ h.poor_exposure[2][1] > dark_threshold
        THEN <<TOO_DARK>> ELSE <<>>)
    \o (IF h.poor_exposure[1] /\ h.poor_exposure[2][2] > bright_threshold
        THEN <<TOO_BRIGHT>> ELSE <<>>)
    \o (IF h.too_small[1] THEN <<RESOLUTION_TOO_SMALL>> ELSE <<>>)

\* The early-termination return of evaluate (heuristics failed).
heuristics_failed_metrics(reasons, blur_score, exposure_score, size_score) ==
    ImageQualityMetrics(Min3(blur_score, exposure_score, size_score), FALSE, reasons,
                        blur_score, exposure_score, size_score, 0, FALSE)

\* Variant of segmented_metrics that takes passing Stage 1 as usable.
segmented_metrics_always_usable(blur_score, exposure_score, size_score, seg) ==
    LET failure_reasons == IF ~seg[2] THEN <<INSUFFICIENT_ROAD_SURFACE>> ELSE <<>>
    IN  ImageQualityMetrics(
            calculate_overall_score(blur_score, exposure_score, size_score, seg[1]),
            TRUE, failure_reasons,
            blur_score, exposure_score, size_score, seg[1], seg[2])

\* The Stage-2 return of evaluate.
segmented_metrics(blur_score, exposure_score, size_score, seg) ==
    LET failure_reasons == IF ~seg[2] THEN <<INSUFFICIENT_ROAD_SURFACE>> ELSE <<>>
    IN  ImageQualityMetrics(
            calculate_overall_score(blur_score, exposure_score, size_score, seg[1]),
            Len(failure_reasons) = 0, failure_reasons,
            blur_score, exposure_score, size_score, seg[1], seg[2])

\* What evaluate hands back to the harness: the returned metrics, whether an
\* exception left evaluate instead, and the number of calls it made to
\* check_image_quality and to detect_road_surface.
EvaluateRun(metrics, heur_calls, seg_calls) ==
    [metrics |-> metrics, raised |-> FALSE,
     heur_calls |-> heur_calls, seg_calls |-> seg_calls]

\* Variant of evaluate without the except clause of lines 99-102.
evaluate_uncaught(img) ==
    IF ~img.exists
    THEN EvaluateRun(create_failed(FILE_NOT_FOUND), 0, 0)
    ELSE IF img.heur_raises
    THEN [EvaluateRun(NoQuality, 1, 0) EXCEPT !.raised = TRUE]
    ELSE
      LET h == check_image_quality(img)
          blur_score == calculate_blur_score(h.blurry)
          exposure_score == calculate_exposure_score(h.poor_exposure)
          size_score == calculate_size_score(h.too_small)
          reasons == get_heuristic_failure_reasons(h)
      IN  IF Len(reasons) > 0
          THEN EvaluateRun(heuristics_failed_metrics(reasons, blur_score,
                                                     exposure_score, size_score), 1, 0)
          ELSE EvaluateRun(segmented_metrics(blur_score, exposure_score, size_score,
                                             detect_road_surface(img)), 1, 1)

\* evaluate.  detect_road_surface catches every exception of both of its
\* branches (segmentation.py lines 84-86 and 122-123), so the only
\* exception that reaches the except clause of lines 99-102 comes from
\* check_image_quality.
evaluate(img) ==
    IF ~img.exists
    THEN EvaluateRun(create_failed(FILE_NOT_FOUND), 0, 0)
    ELSE IF img.heur_raises
    THEN EvaluateRun(create_failed(PROCESSING_ERROR), 1, 0)
    ELSE
      LET h == check_image_quality(img)
          blur_score == calculate_blur_score(h.blurry)
          exposure_score == calculate_exposure_score(h.poor_exposure)
          size_score == calculate_size_score(h.too_small)
          reasons == get_heuristic_failure_reasons(h)
      IN  IF Len(reasons) > 0
          THEN EvaluateRun(heuristics_failed_metrics(reasons, blur_score,
                                                     exposure_score, size_score), 1, 0)
          ELSE EvaluateRun(segmented_metrics(blur_score, exposure_score, size_score,
                                             detect_road_surface(img)), 1, 1)

\* ------------------------------------------------------------------------
\* RoadQualityService.assess_road_quality, as seen by the orchestrator:
\* img.analyzer is "metrics" (a RoadQualityMetrics is returned), "none"
\* (the preprocessor produced nothing) or "raises" (RuntimeError).
\* ------------------------------------------------------------------------
NoRoadMetrics == [is_none |-> TRUE]

SomeRoadMetrics == [is_none |-> FALSE]

\* ------------------------------------------------------------------------
\* PipelineResult and RoadAnalysisPipeline.process_image
\* ------------------------------------------------------------------------
create_quality_failed(quality_metrics) ==
    [processed_successfully |-> FALSE,
     quality_metrics |-> quality_metrics,
     road_metrics |-> NoRoadMetrics]

\* Variant of create_success that drops the analyzer's metrics.
create_success_without_road(quality_metrics, road_metrics) ==
    [processed_successfully |-> TRUE,
     quality_metrics |-> quality_metrics,
     road_metrics |-> NoRoadMetrics]

create_success(quality_metrics, road_metrics) ==
    [processed_successfully |-> TRUE,
     quality_metrics |-> quality_metrics,
     road_metrics |-> road_metrics]

NoResult == create_quality_failed(NoQuality)

\* What process_image hands back to the harness: the PipelineResult,
\* whether an exception left process_image instead, the services it called
\* in call order, and the number of calls made to the
\* gate, the segmentation and the analyzer.
ProcessRun(result, calls, seg_calls) ==
    [result |-> result,
     raised |-> FALSE,
     calls |-> calls,
     gate_calls |-> Len(SelectSeq(calls, LAMBDA c : c = "evaluate")),
     seg_calls |-> seg_calls,
     analyzer_calls |-> Len(SelectSeq(calls, LAMBDA c : c = "assess_road_quality"))]

\* Variant of process_image without the quality gate's early return.
process_image_ungated(img) ==
    LET ev == evaluate(img)
        quality_metrics == ev.metrics
    IN  IF img.analyzer \in {"none", "raises"}
        THEN ProcessRun(create_quality_failed(create_failed(PROCESSING_ERROR)),
                        <<"evaluate", "assess_road_quality">>, ev.seg_calls)
        ELSE ProcessRun(IF quality_metrics.is_usable
                        THEN create_success(quality_metrics, SomeRoadMetrics)
                        ELSE create_quality_failed(quality_metrics),
                        <<"evaluate", "assess_road_quality">>, ev.seg_calls)

\* Variant of process_image that, when the analyzer returns None, reports
\* the failure with the gate's own assessment.
process_image_keeps_gate_quality(img) ==
    LET ev == evaluate(img)
        quality_metrics == ev.metrics
    IN  IF ~quality_metrics.is_usable
        THEN ProcessRun(create_quality_failed(quality_metrics),
                        <<"evaluate">>, ev.seg_calls)
        ELSE IF img.analyzer = "none"
        THEN ProcessRun(create_quality_failed(quality_metrics),
                        <<"evaluate", "assess_road_quality">>, ev.seg_calls)
        ELSE IF img.analyzer = "raises"
        THEN ProcessRun(create_quality_failed(create_failed(PROCESSING_ERROR)),
                        <<"evaluate", "assess_road_quality">>, ev.seg_calls)
        ELSE ProcessRun(create_success(quality_metrics, SomeRoadMetrics),
                        <<"evaluate", "assess_road_quality">>, ev.seg_calls)

\* Variant of process_image without the except clause of lines 80-89.
process_image_uncaught(img) ==
    LET ev == evaluate(img)
        quality_metrics == ev.metrics
    IN  IF ~quality_metrics.is_usable
        THEN ProcessRun(create_quality_failed(quality_metrics),
                        <<"evaluate">>, ev.seg_calls)
        ELSE IF img.analyzer = "none"
        THEN ProcessRun(create_quality_failed(create_failed(PROCESSING_ERROR)),
                        <<"evaluate", "assess_road_quality">>, ev.seg_calls)
        ELSE IF img.analyzer = "raises"
        THEN [ProcessRun(NoResult, <<"evaluate", "assess_road_quality">>, ev.seg_calls)
                 EXCEPT !.raised = TRUE]
        ELSE ProcessRun(create_success(quality_metrics, SomeRoadMetrics),
                        <<"evaluate", "assess_road_quality">>, ev.seg_calls)

\* process_image.  evaluate lets no exception out, so the except clause of
\* lines 80-89 is reached from assess_road_quality only.
process_image(img) ==
    LET ev == evaluate(img)
        quality_metrics == ev.metrics
    IN  IF ~quality_metrics.is_usable
        THEN ProcessRun(create_quality_failed(quality_metrics),
                        <<"evaluate">>, ev.seg_calls)
        ELSE IF img.analyzer = "none"
        THEN ProcessRun(create_quality_failed(create_failed(PROCESSING_ERROR)),
                        <<"evaluate", "assess_road_quality">>, ev.seg_calls)
        ELSE IF img.analyzer = "raises"
        THEN ProcessRun(create_quality_failed(create_failed(PROCESSING_ERROR)),
                        <<"evaluate", "assess_road_quality">>, ev.seg_calls)
        ELSE ProcessRun(create_success(quality_metrics, SomeRoadMetrics),
                        <<"evaluate", "assess_road_quality">>, ev.seg_calls)

\* ------------------------------------------------------------------------
\* Images given to the gate: bounded sets of pixel statistics.
\* ------------------------------------------------------------------------
LapVars == {0, 49, 50, 120}

DarkFracs == {0, 20, 21, 60}

BrightFracs == {0, 80, 81}

Widths == {200, 399, 400}

Heights == {150, 300}

RoadPcts == {0, 10, 15, 20, 25, 40, 100}

SegPaths == {"ai", "fallback", "fallback_error"}

AnalyzerOutcomes == {"metrics", "none", "raises"}

GateImages ==
    { img \in [exists : BOOLEAN, heur_raises : BOOLEAN, lap_var : LapVars,
               dark_frac : DarkFracs, bright_frac : BrightFracs,
               width : Widths, height : Heights,
               road_pct : RoadPcts, seg_path : SegPaths,
               analyzer : AnalyzerOutcomes] :
        /\ img.dark_frac + img.bright_frac <= 100
        \* one representative of the images that are missing or unreadable
        /\ (~img.exists \/ img.heur_raises) =>
              /\ img.lap_var = 0 /\ img.dark_frac = 0 /\ img.bright_frac = 0
              /\ img.width = 200 /\ img.height = 150
              /\ img.road_pct = 0 /\ img.seg_path = "ai" /\ img.analyzer = "metrics"
              /\ (~img.exists => ~img.heur_raises) }

\* ------------------------------------------------------------------------
\* Gate harness: one image is drawn, then evaluate / process_image /
\* create_failed is applied to it.
\* ------------------------------------------------------------------------
FailureReasons ==
    {TOO_BLURRY, TOO_DARK, TOO_BRIGHT, RESOLUTION_TOO_SMALL,
     INSUFFICIENT_ROAD_SURFACE, FILE_NOT_FOUND, PROCESSING_ERROR}

GateEvaluate ==
    /\ gPc = "ready"
    /\ gQuality' = evaluate(gImage).metrics
    /\ gSegCalls' = gSegCalls + evaluate(gImage).seg_calls
    /\ gHeurCalls' = gHeurCalls + evaluate(gImage).heur_calls
    /\ gRaised' = evaluate(gImage).raised
    /\ gPc' = "evaluated"
    /\ UNCHANGED <<gImage, gResult, gCalls>>

GateProcessImage ==
    /\ gPc = "ready"
    /\ gResult' = process_image(gImage).result
    /\ gQuality' = evaluate(gImage).metrics
    /\ gSegCalls' = gSegCalls + process_image(gImage).seg_calls
    /\ gHeurCalls' = gHeurCalls + evaluate(gImage).heur_calls
    /\ gCalls' = process_image(gImage).calls
    /\ gRaised' = process_image(gImage).raised
    /\ gPc' = "processed"
    /\ UNCHANGED gImage

GateCreateFailed ==
    /\ gPc = "ready"
    /\ \E r \in FailureReasons : gQuality' = create_failed(r)
    /\ gPc' = "failed_created"
    /\ UNCHANGED <<gImage, gResult, gSegCalls, gHeurCalls, gCalls, gRaised>>

\* ------------------------------------------------------------------------
\* Persistence: image metadata, tables, duplicate check
\* ------------------------------------------------------------------------
NumWorkers == 2

MaxCalls == 2

Workers == 1..NumWorkers

NoLoc == "NoLoc"

NoDate == "NoDate"

\* source_image_id "" stands for None: both are falsy in the duplicate check.
Meta(src, id, loc, date) ==
    [source |-> src, source_image_id |-> id, location |-> loc, date_taken |-> date]

Metas ==
    {Meta("mapillary", "X", "L1", "D1"),
     Meta("mapillary", "Y", "L1", "D1"),
     Meta("mapillary", "", "L1", "D1"),
     Meta("mapillary", "X", NoLoc, NoDate),
     Meta("manual_upload", "X", "L1", NoDate),
     Meta("manual_upload", "", NoLoc, NoDate)}

GoodImage ==
    [exists |-> TRUE, heur_raises |-> FALSE, lap_var |-> 120, dark_frac |-> 0,
     bright_frac |-> 0, width |-> 400, height |-> 300, road_pct |-> 40,
     seg_path |-> "ai", analyzer |-> "metrics"]

BlurryImage == [GoodImage EXCEPT !.lap_var = 0]

Contents == {GoodImage, BlurryImage}

\* check_duplicate_photo: the rows the query's fetchone may return (the
\* queries have no ORDER BY); the empty set is the None result.
\* Variant of primary_matches with the test of source_image_id inverted.
primary_matches_inverted(rows, m) ==
    IF m.source_image_id = ""
    THEN { r \in rows : r.source = m.source /\ r.source_image_id = m.source_image_id }
    ELSE {}

primary_matches(rows, m) ==
    IF m.source_image_id # ""
    THEN { r \in rows : r.source = m.source /\ r.source_image_id = m.source_image_id }
    ELSE {}

\* Variant of secondary_matches nested under the test of source_image_id.
secondary_matches_needs_id(rows, m) ==
    IF m.source_image_id # "" /\ m.location # NoLoc /\ m.date_taken # NoDate
    THEN { r \in rows : r.location = m.location /\ r.date_taken = m.date_taken }
    ELSE {}

secondary_matches(rows, m) ==
    IF m.location # NoLoc /\ m.date_taken # NoDate
    THEN { r \in rows : r.location = m.location /\ r.date_taken = m.date_taken }
    ELSE {}

check_duplicate_photo(rows, m) ==
    IF primary_matches(rows, m) # {}
    THEN primary_matches(rows, m)
    ELSE secondary_matches(rows, m)

\* RETURNING id of a serial column in a table from which nothing is deleted.
next_id(rows) == Cardinality(rows) + 1

photo_row(id, m) ==
    [id |-> id, source |-> m.source, source_image_id |-> m.source_image_id,
     location |-> m.location, date_taken |-> m.date_taken]

quality_row(id, photo_id, quality_metrics) ==
    [id |-> id, photo_id |-> photo_id, is_usable |-> quality_metrics.is_usable]

road_row(id, photo_id) == [id |-> id, photo_id |-> photo_id]

\* ------------------------------------------------------------------------
\* Dicts returned by process_image_with_db.  kind names the return statement.
\* A key the dict does not carry is given its .get() default and is left
\* out of keys.
\* ------------------------------------------------------------------------
ResultDict(kind, keys, success, duplicate_found, database_saved, photo_id) ==
    [kind |-> kind, keys |-> keys, success |-> success,
     duplicate_found |-> duplicate_found, database_saved |-> database_saved,
     photo_id |-> photo_id]

NoRes == ResultDict("none", {}, FALSE, FALSE, FALSE, 0)

duplicate_result(photo_id) ==
    ResultDict("duplicate",
               {"duplicate_found", "photo_id", "existing_results", "processing_skipped"},
               FALSE, TRUE, FALSE, photo_id)

not_saved_result ==
    ResultDict("not_saved", {"pipeline_result", "database_saved"}, FALSE, FALSE, FALSE, 0)

saved_result(photo_id) ==
    ResultDict("saved",
               {"success", "duplicate_found", "pipeline_result", "database_ids",
                "database_saved"},
               TRUE, FALSE, TRUE, photo_id)

save_failed_result ==
    ResultDict("save_failed", {"success", "error", "pipeline_result", "database_saved"},
               FALSE, FALSE, FALSE, 0)

\* Variant of error_result: the exception leaves process_image_with_db.
error_result_raised == ResultDict("raised", {}, FALSE, FALSE, FALSE, 0)

\* Lines 156-158: the dict built by the except clause.
error_result ==
    ResultDict("error", {"error", "success", "image_path"}, FALSE, FALSE, FALSE, 0)

NoCall ==
    [meta |-> Meta("manual_upload", "", NoLoc, NoDate), content |-> GoodImage,
     pr |-> NoResult, started_absent |-> FALSE, failed_step |-> "",
     photo_id |-> 0, gate_calls |-> 0, analyzer_calls |-> 0, inserts |-> 0,
     start_len |-> 0]

LogEntry(w, c, r) ==
    [worker |-> w, meta |-> c.meta, kind |-> r.kind, photo_id |-> r.photo_id,
     created_photo_id |-> c.photo_id, failed_step |-> c.failed_step,
     started_absent |-> c.started_absent, start_len |-> c.start_len]

\* ------------------------------------------------------------------------
\* DatabasePipeline.process_image_with_db, one worker w.
\* Every DatabaseService method opens its own connection through
\* transaction() and commits on return, so the steps of one call are
\* separate committed transactions that interleave with other workers.
\* A database operation either works or raises (Faults).
\* ------------------------------------------------------------------------
Faults == BOOLEAN

Finish(w, r, c) ==
    /\ pc' = [pc EXCEPT ![w] = "done"]
    /\ res' = [res EXCEPT ![w] = r]
    /\ call' = [call EXCEPT ![w] = c]
    /\ log' = Append(log, LogEntry(w, c, r))

StartCall(w, m, content) ==
    /\ pc[w] \in {"idle", "done"}
    /\ calls_started < MaxCalls
    /\ calls_started' = calls_started + 1
    /\ pc' = [pc EXCEPT ![w] = "check"]
    /\ res' = [res EXCEPT ![w] = NoRes]
    /\ call' = [call EXCEPT ![w] =
                  [NoCall EXCEPT !.meta = m, !.content = content,
                                 !.started_absent = (check_duplicate_photo(photos, m) = {}),
                                 !.start_len = Len(log)]]
    /\ UNCHANGED <<store_vars, save_to_db, log>>

\* Lines 139-154: process the image, then save unless saving is disabled.
ProcessNew(w) ==
    LET run == process_image(call[w].content)
        c == [call[w] EXCEPT !.pr = run.result,
                             !.gate_calls = @ + run.gate_calls,
                             !.analyzer_calls = @ + run.analyzer_calls]
    IN  IF ~save_to_db[w]
        THEN Finish(w, not_saved_result, c)
        ELSE /\ pc' = [pc EXCEPT ![w] = "save_photo"]
             /\ call' = [call EXCEPT ![w] = c]
             /\ UNCHANGED <<res, log>>

\* Variant of DuplicateFound that goes on to process the image.
DuplicateFound_falls_through(w, r) == ProcessNew(w)

\* Lines 127-137: the duplicate branch, r is the row the check returned.
DuplicateFound(w, r) ==
    \E fault \in Faults :
        IF fault
        THEN \* get_photo_with_results raised
             Finish(w, error_result, [call[w] EXCEPT !.failed_step = "check"])
        ELSE Finish(w, duplicate_result(r.id), call[w])

CheckDuplicate(w) ==
    /\ pc[w] = "check"
    /\ \/ \* check_duplicate_photo raised
          Finish(w, error_result, [call[w] EXCEPT !.failed_step = "check"])
       \/ /\ check_duplicate_photo(photos, call[w].meta) # {}
          /\ \E r \in check_duplicate_photo(photos, call[w].meta) : DuplicateFound(w, r)
       \/ /\ check_duplicate_photo(photos, call[w].meta) = {}
          /\ ProcessNew(w)
    /\ UNCHANGED <<store_vars, save_to_db, calls_started>>

\* An insert inside _save_pipeline_result_to_db raised: the inner except
\* builds the error dict; the outer transaction is still to be left.
SaveFailed(w, step) ==
    /\ pc' = [pc EXCEPT ![w] = "commit"]
    /\ res' = [res EXCEPT ![w] = save_failed_result]
    /\ call' = [call EXCEPT ![w].failed_step = step]
    /\ UNCHANGED <<store_vars, log>>

\* Lines 172-182: enter the outer transaction() and call save_photo, which
\* inserts and commits on its own connection.
SavePhoto(w) ==
    /\ pc[w] = "save_photo"
    /\ \/ \* get_connection of the outer transaction() raised
          /\ Finish(w, error_result, [call[w] EXCEPT !.failed_step = "connect"])
          /\ UNCHANGED store_vars
       \/ SaveFailed(w, "photo")
       \/ LET photo_id == next_id(photos)
          IN  /\ photos' = photos \cup {photo_row(photo_id, call[w].meta)}
              /\ call' = [call EXCEPT ![w].photo_id = photo_id, ![w].inserts = @ + 1]
              /\ pc' = [pc EXCEPT ![w] = "save_quality"]
              /\ UNCHANGED <<quality_results, road_analysis_results, res, log>>
    /\ UNCHANGED <<save_to_db, calls_started>>

\* Lines 184-187: save_quality_result, its own committed transaction.
SaveQuality(w) ==
    /\ pc[w] = "save_quality"
    /\ \/ SaveFailed(w, "quality")
       \/ /\ quality_results' = quality_results \cup
                {quality_row(next_id(quality_results), call[w].photo_id,
                             call[w].pr.quality_metrics)}
          /\ call' = [call EXCEPT ![w].inserts = @ + 1]
          /\ IF ~call[w].pr.road_metrics.is_none
             THEN /\ pc' = [pc EXCEPT ![w] = "save_road"]
                  /\ UNCHANGED res
             ELSE /\ pc' = [pc EXCEPT ![w] = "commit"]
                  /\ res' = [res EXCEPT ![w] = saved_result(call[w].photo_id)]
          /\ UNCHANGED <<photos, road_analysis_results, log>>
    /\ UNCHANGED <<save_to_db, calls_started>>

\* Lines 189-208: save_road_analysis_result, its own committed transaction.
SaveRoad(w) ==
    /\ pc[w] = "save_road"
    /\ \/ SaveFailed(w, "road")
       \/ /\ road_analysis_results' = road_analysis_results \cup
                {road_row(next_id(road_analysis_results), call[w].photo_id)}
          /\ call' = [call EXCEPT ![w].inserts = @ + 1]
          /\ pc' = [pc EXCEPT ![w] = "commit"]
          /\ res' = [res EXCEPT ![w] = saved_result(call[w].photo_id)]
          /\ UNCHANGED <<photos, quality_results, log>>
    /\ UNCHANGED <<save_to_db, calls_started>>

\* Leaving the outer transaction(): conn.commit() on a connection that ran
\* no statement.  If it raises, the except of process_image_with_db
\* replaces the dict that was being returned.
CommitOuter(w) ==
    /\ pc[w] = "commit"
    /\ \/ Finish(w, res[w], call[w])
       \/ Finish(w, error_result,
                 [call[w] EXCEPT !.failed_step =
                                    IF @ = "" THEN "commit" ELSE @])
    /\ UNCHANGED <<store_vars, save_to_db, calls_started>>

disable_database_saves(w) ==
    /\ pc[w] \in {"idle", "done"}
    /\ save_to_db[w]
    /\ save_to_db' = [save_to_db EXCEPT ![w] = FALSE]
    /\ UNCHANGED <<store_vars, pc, call, res, calls_started, log>>

enable_database_saves(w) ==
    /\ pc[w] \in {"idle", "done"}
    /\ ~save_to_db[w]
    /\ save_to_db' = [save_to_db EXCEPT ![w] = TRUE]
    /\ UNCHANGED <<store_vars, pc, call, res, calls_started, log>>

\* The images process_coordinate_with_db hands over: source is "mapillary".
MapillaryMetas == { m \in Metas : m.source = "mapillary" }

WorkerStep(w, metas) ==
    \/ \E m \in metas, content \in Contents : StartCall(w, m, content)
    \/ CheckDuplicate(w)
    \/ SavePhoto(w)
    \/ SaveQuality(w)
    \/ SaveRoad(w)
    \/ CommitOuter(w)

\* ------------------------------------------------------------------------
\* RateLimiter (run_parallel_analysis.py).  Time in tenths of a second.
\* ------------------------------------------------------------------------
Window == 600

Buffer == 1

MaxRequests == 2

MaxRLCalls == 5

MaxTime == 1000

TimeSteps == {200, 300}

\* Line 49: the entries younger than one minute, in list order.
evict(times, now) == SelectSeq(times, LAMBDA t : now - t < Window)

\* Variant of wait_time that takes the elapsed time for the remaining time.
wait_time_elapsed(times, now) == (now - SetMin(SeqToSet(times))) + Buffer

\* Lines 53-54.
wait_time(times, now) == Window - (now - SetMin(SeqToSet(times))) + Buffer

\* A worker reaches "with self.lock" and may have to wait for the lock.
RLCall(w) ==
    /\ rl_pc[w] = "idle"
    /\ rl_calls < MaxRLCalls
    /\ rl_calls' = rl_calls + 1
    /\ rl_pc' = [rl_pc EXCEPT ![w] = "acquire"]
    /\ UNCHANGED <<clock, requests_times, lock, rl_now, rl_oldest, rl_wake, releases>>

\* Lines 46-56 up to the sleep: take the lock, read the clock, evict, and
\* decide whether to sleep.
RLEnter(w) ==
    /\ rl_pc[w] = "acquire"
    /\ lock = 0
    /\ lock' = w
    /\ rl_now' = [rl_now EXCEPT ![w] = clock]
    /\ requests_times' = evict(requests_times, clock)
    /\ IF Len(evict(requests_times, clock)) >= MaxRequests
       THEN /\ rl_oldest' = [rl_oldest EXCEPT ![w] =
                                SetMin(SeqToSet(evict(requests_times, clock)))]
            /\ IF wait_time(evict(requests_times, clock), clock) > 0
               THEN /\ rl_pc' = [rl_pc EXCEPT ![w] = "sleep"]
                    /\ rl_wake' = [rl_wake EXCEPT ![w] =
                                      clock + wait_time(evict(requests_times, clock), clock)]
               ELSE /\ rl_pc' = [rl_pc EXCEPT ![w] = "append"]
                    /\ UNCHANGED rl_wake
       ELSE /\ rl_oldest' = [rl_oldest EXCEPT ![w] = -1]
            /\ rl_pc' = [rl_pc EXCEPT ![w] = "append"]
            /\ UNCHANGED rl_wake
    /\ UNCHANGED <<clock, rl_calls, releases>>

\* Line 56: time.sleep(wait_time), taken to return exactly when asked (the
\* earliest it can).
RLSleep(w) ==
    /\ rl_pc[w] = "sleep"
    /\ clock' = Max2(clock, rl_wake[w])
    /\ rl_pc' = [rl_pc EXCEPT ![w] = "append"]
    /\ UNCHANGED <<requests_times, lock, rl_now, rl_oldest, rl_wake, rl_calls, releases>>

\* Variant of RLAppend that returns without releasing the lock.
RLAppend_keeps_lock(w) ==
    /\ rl_pc[w] = "append"
    /\ requests_times' = Append(requests_times, rl_now[w])
    /\ lock' = lock
    /\ rl_pc' = [rl_pc EXCEPT ![w] = "idle"]
    /\ releases' = Append(releases, [t |-> clock, worker |-> w,
                                     oldest |-> rl_oldest[w], now |-> rl_now[w]])
    /\ UNCHANGED <<clock, rl_now, rl_oldest, rl_wake, rl_calls>>

\* Line 58 and the end of the with block: record the call, release the
\* lock, return.
RLAppend(w) ==
    /\ rl_pc[w] = "append"
    /\ requests_times' = Append(requests_times, rl_now[w])
    /\ lock' = 0
    /\ rl_pc' = [rl_pc EXCEPT ![w] = "idle"]
    /\ releases' = Append(releases, [t |-> clock, worker |-> w,
                                     oldest |-> rl_oldest[w], now |-> rl_now[w]])
    /\ UNCHANGED <<clock, rl_now, rl_oldest, rl_wake, rl_calls>>

\* Time passes between calls.  The statements of the critical section other
\* than the sleep take no time.
Tick ==
    /\ lock = 0
    /\ \E d \in TimeSteps :
          /\ clock + d <= MaxTime
          /\ clock' = clock + d
    /\ UNCHANGED <<requests_times, lock, rl_pc, rl_now, rl_oldest, rl_wake, rl_calls, releases>>

\* ------------------------------------------------------------------------
\* RoadQualityMetrics.from_model_output (road_quality/metrics.py).
\* Confidences and roughness are carried in thousandths (1.0 is 1000), the
\* quality score in thousandths of a point like the gate's scores.  The
\* fields the function copies from the dict without using them
\* (pothole_count, lane_visibility, debris_score, weather_condition,
\* confidence) are left out.
\* ------------------------------------------------------------------------
Unit == 1000

crack_severity(crack_conf) ==
    IF crack_conf < (2 * Unit) \div 10 THEN "none"
    ELSE IF crack_conf < (5 * Unit) \div 10 THEN "minor"
    ELSE IF crack_conf < (8 * Unit) \div 10 THEN "moderate"
    ELSE "severe"

from_model_output(model_predictions) ==
    LET crack_conf == model_predictions.crack_confidence
        pothole_conf == model_predictions.pothole_confidence
        roughness == model_predictions.surface_roughness
        \* 100 * (1 - max(...)), in thousandths of a point
        quality_score == 100 * (Unit - Max2(crack_conf, Max2(pothole_conf, roughness)))
    IN  [overall_quality_score |-> Max2(0, Min2(100 * Scale, quality_score)),
         crack_confidence |-> crack_conf,
         crack_severity |-> crack_severity(crack_conf),
         pothole_confidence |-> pothole_conf,
         surface_roughness |-> roughness]

\* Raw model outputs, inside and outside [0, 1].
RawValues == {-500, 0, 199, 200, 500, 800, 1000, 1500}

ModelOutputs ==
    [crack_confidence : RawValues, pothole_confidence : RawValues,
     surface_roughness : RawValues]

NoPredictions == [crack_confidence |-> 0, pothole_confidence |-> 0, surface_roughness |-> 0]

FromModelOutput ==
    /\ mPc = "ready"
    /\ mMetrics' = from_model_output(mPredictions)
    /\ mPc' = "built"
    /\ UNCHANGED mPredictions

\* ------------------------------------------------------------------------
\* Batch run (run_parallel_analysis.py): process_batch_parallel submits
\* process_single_street_point for each point to a pool of workers and
\* tallies the dicts they return.  Each point runs
\* DatabasePipeline.process_coordinate_with_db, which fetches the images of
\* the point and calls process_image_with_db on each.
\* rate_limiter.wait_if_needed (line 74) is the subject of SpecRL; with its
\* limit of 500 calls per minute (line 62) a batch of MaxPoints points
\* passes it without blocking, and nothing below reads its state.
\* ------------------------------------------------------------------------
MaxPoints == 2

MaxImages == 2

\* The per-point tallies process_coordinate_with_db derives from
\* processed_images; db_failures counts the calls in which a database
\* operation raised (bookkeeping, not a field of the source).
NoPoint ==
    [street_point_id |-> 0, fetched |-> 0, left |-> 0, total_processed |-> 0,
     successful_saves |-> 0, duplicates_found |-> 0, db_failures |-> 0]

\* Dict returned by process_coordinate_with_db (lines 255-267, 319-331, 335).
CoordinateResult(success, error, total_images_fetched, total_processed, successful_saves, duplicates_found) ==
    [success |-> success,
     error |-> error,
     summary |-> [total_images_fetched |-> total_images_fetched,
                  total_processed |-> total_processed,
                  successful_database_saves |-> successful_saves,
                  duplicates_found |-> duplicates_found,
                  processing_errors |-> total_processed - successful_saves
                                           - duplicates_found]]

\* Lines 310-331: the return of process_coordinate_with_db after the loop.
coordinate_summary(p) ==
    CoordinateResult(TRUE, "no error key", p.fetched, p.total_processed,
                     p.successful_saves, p.duplicates_found)

\* Lines 87-106 of process_single_street_point.
point_result(street_point_id, result) ==
    IF result.success
    THEN [street_point_id |-> street_point_id, status |-> "success",
          images_found |-> result.summary.total_images_fetched,
          images_saved |-> result.summary.successful_database_saves,
          error |-> "None"]
    ELSE [street_point_id |-> street_point_id, status |-> "failed",
          images_found |-> 0, images_saved |-> 0,
          error |-> IF result.error = "no error key" THEN "Unknown error"
                    ELSE result.error]

\* Lines 108-115 of process_single_street_point.
point_exception(street_point_id, message) ==
    [street_point_id |-> street_point_id, status |-> "exception",
     images_found |-> 0, images_saved |-> 0, error |-> message]

NoPointResult == point_exception(0, "None")

NoBatchResults ==
    [processed |-> 0, successful |-> 0, no_images |-> 0, failed |-> 0,
     total_images |-> 0, total_saved |-> 0, errors |-> <<>>]

PointReturn(w, r, p) ==
    /\ pt_pc' = [pt_pc EXCEPT ![w] = "returned"]
    /\ pt_result' = [pt_result EXCEPT ![w] = r]
    /\ pt' = [pt EXCEPT ![w] = p]

\* process_single_street_point up to the image loop of
\* process_coordinate_with_db: the pipeline is built and the images of the
\* point are fetched.
PointStart(w) ==
    /\ pt_pc[w] = "idle"
    /\ pc[w] \in {"idle", "done"}
    /\ points_started < MaxPoints
    /\ points_started' = points_started + 1
    /\ LET id == points_started + 1
           p == [NoPoint EXCEPT !.street_point_id = id]
       IN  \/ \* DatabasePipeline(...) raised (the model failed to load)
              PointReturn(w, point_exception(id, "Model failed to load"), p)
           \/ \* fetch_images_at_point caught an error: success False, no images
              PointReturn(w, point_result(id, CoordinateResult(FALSE, "no error key",
                                                               0, 0, 0, 0)), p)
           \/ \* no image at this point
              PointReturn(w, point_result(id, CoordinateResult(TRUE, "no error key",
                                                               0, 0, 0, 0)), p)
           \/ \E n \in 1..MaxImages :
                 /\ pt' = [pt EXCEPT ![w] = [p EXCEPT !.fetched = n, !.left = n]]
                 /\ pt_pc' = [pt_pc EXCEPT ![w] = "images"]
                 /\ UNCHANGED pt_result
    /\ UNCHANGED <<db_vars, batch_results, collected>>

\* Lines 277-304: one step of process_image_with_db on the next image.
PointImageStep(w) ==
    /\ pt_pc[w] = "images"
    /\ pc[w] # "done"
    /\ pc[w] = "idle" => pt[w].left > 0
    /\ WorkerStep(w, MapillaryMetas)
    /\ UNCHANGED batch_vars

\* Lines 306-308: the dict of the image joins processed_images.
PointAppend(w) ==
    /\ pt_pc[w] = "images"
    /\ pc[w] = "done"
    /\ pt' = [pt EXCEPT ![w] =
                [@ EXCEPT !.left = @ - 1,
                          !.total_processed = @ + 1,
                          !.successful_saves = @ + (IF res[w].database_saved THEN 1 ELSE 0),
                          !.duplicates_found = @ + (IF res[w].duplicate_found THEN 1 ELSE 0),
                          !.db_failures = @ + (IF call[w].failed_step # "" THEN 1 ELSE 0)]]
    /\ pc' = [pc EXCEPT ![w] = "idle"]
    /\ UNCHANGED <<store_vars, call, res, save_to_db, calls_started, log,
                   pt_pc, pt_result, points_started, batch_results, collected>>

\* Lines 310-331 and 87-98: the loop is over, the point returns.
PointSummary(w) ==
    /\ pt_pc[w] = "images"
    /\ pc[w] = "idle"
    /\ pt[w].left = 0
    /\ PointReturn(w, point_result(pt[w].street_point_id, coordinate_summary(pt[w])), pt[w])
    /\ UNCHANGED <<db_vars, points_started, batch_results, collected>>

\* Variant of BatchCollect that lists only the points that raised.
BatchCollect_exceptions_only(w) ==
    /\ pt_pc[w] = "returned"
    /\ LET result == pt_result[w]
           counted == IF result.status = "success"
                      THEN (IF result.images_found > 0 THEN "successful" ELSE "no_images")
                      ELSE "failed"
       IN  /\ batch_results' =
                 [batch_results EXCEPT
                    !.processed = @ + 1,
                    !.successful = @ + (IF counted = "successful" THEN 1 ELSE 0),
                    !.total_images = @ + (IF counted = "successful"
                                          THEN result.images_found ELSE 0),
                    !.total_saved = @ + (IF counted = "successful"
                                         THEN result.images_saved ELSE 0),
                    !.no_images = @ + (IF counted = "no_images" THEN 1 ELSE 0),
                    !.failed = @ + (IF counted = "failed" THEN 1 ELSE 0),
                    !.errors = IF result.status = "exception"
                               THEN Append(@, <<result.street_point_id, result.error>>)
                               ELSE @]
           /\ collected' = Append(collected,
                                  [result |-> result, counted |-> counted,
                                   db_failures |-> pt[w].db_failures])
    /\ pt_pc' = [pt_pc EXCEPT ![w] = "idle"]
    /\ UNCHANGED <<db_vars, pt, pt_result, points_started>>

\* Lines 168-185 of process_batch_parallel: one completed future is tallied.
BatchCollect(w) ==
    /\ pt_pc[w] = "returned"
    /\ LET result == pt_result[w]
           counted == IF result.status = "success"
                      THEN (IF result.images_found > 0 THEN "successful" ELSE "no_images")
                      ELSE "failed"
       IN  /\ batch_results' =
                 [batch_results EXCEPT
                    !.processed = @ + 1,
                    !.successful = @ + (IF counted = "successful" THEN 1 ELSE 0),
                    !.total_images = @ + (IF counted = "successful"
                                          THEN result.images_found ELSE 0),
                    !.total_saved = @ + (IF counted = "successful"
                                         THEN result.images_saved ELSE 0),
                    !.no_images = @ + (IF counted = "no_images" THEN 1 ELSE 0),
                    !.failed = @ + (IF counted = "failed" THEN 1 ELSE 0),
                    !.errors = IF counted = "failed"
                               THEN Append(@, <<result.street_point_id, result.error>>)
                               ELSE @]
           /\ collected' = Append(collected,
                                  [result |-> result, counted |-> counted,
                                   db_failures |-> pt[w].db_failures])
    /\ pt_pc' = [pt_pc EXCEPT ![w] = "idle"]
    /\ UNCHANGED <<db_vars, pt, pt_result, points_started>>

\* ------------------------------------------------------------------------
\* Whole runs over the street_points table:
\*   "parallel"    run_parallel_analysis.main, batch after batch of
\*                 process_batch_parallel;
\*   "all_points"  DatabasePipeline.process_all_street_points.
\* Here a point is one step: process_coordinate_with_db returns one of
\* PointOutcomes.  Durations are differences of clock readings; a reading
\* may repeat, so a duration is 0 or positive.
\* ------------------------------------------------------------------------
MaxRows == 3

BatchSize == 2

\* The rows of street_points in id order (row i has id 100 + i).
street_points_table == [i \in 1..run_args.rows |-> 100 + i]

\* get_all_unprocessed_street_points: the rows no photos row joins on
\* p.street_point_id = sp.id, ordered by id.
get_all_unprocessed_street_points ==
    SelectSeq(street_points_table,
              LAMBDA id : \A r \in sp_photos : r.street_point_id # id)

\* The dicts process_coordinate_with_db can return for a point: images
\* fetched and all or none of them saved, no image, a failed fetch (lines
\* 254-267), and the error dict of the except clause (line 335).
PointOutcomes ==
    { CoordinateResult(TRUE, "no error key", MaxImages, MaxImages, saved, 0) :
        saved \in {0, MaxImages} }
    \cup { CoordinateResult(TRUE, "no error key", 0, 0, 0, 0),
           CoordinateResult(FALSE, "no error key", 0, 0, 0, 0),
           CoordinateResult(FALSE, "connection reset", 0, 0, 0, 0) }

\* main, lines 199-236: the service is built and the unprocessed points are
\* loaded; process_batch_parallel (lines 145-156) then slices the first
\* batch and zeroes batch_results.
MainStart ==
    /\ run_args.mode = "parallel"
    /\ run_pc = "start"
    /\ \/ \* DatabaseService() or the query raised: logged and re-raised
          /\ run_pc' = "db_error"
          /\ UNCHANGED <<street_points, batch_start, batch_points, cursor, batch_results>>
       \/ /\ street_points' = get_all_unprocessed_street_points
          /\ IF Len(street_points') = 0
             THEN /\ run_pc' = "no_points"
                  /\ UNCHANGED <<batch_start, batch_points, cursor, batch_results>>
             ELSE /\ run_pc' = "batch"
                  /\ batch_start' = 0
                  /\ batch_points' = SubSeq(street_points', 1,
                                            Min2(run_args.batch_size, Len(street_points')))
                  /\ cursor' = 0
                  /\ batch_results' = NoBatchResults
    /\ UNCHANGED <<run_args, overall_stats, attempted, limiter_calls,
                   provider_requests, sp_photos>>
    /\ UNCHANGED <<db_vars, pt_pc, pt, pt_result, points_started, collected>>

\* process_single_street_point (lines 65-115) run by a pool worker on the
\* next submitted point: one wait_if_needed (line 74), then the pipeline is
\* built and process_coordinate_with_db is called without street_point_id
\* (lines 79-85), so the photos it saves carry a NULL street_point_id
\* (written 0).  The provider receives the metadata request and one
\* download request per image (fetcher_service.py lines 67 and 87).
RunPoint(w) ==
    /\ run_args.mode = "parallel"
    /\ run_pc = "batch"
    /\ pt_pc[w] = "idle"
    /\ cursor < Len(batch_points)
    /\ LET id == batch_points[cursor + 1]
           p == [NoPoint EXCEPT !.street_point_id = id]
       IN  /\ cursor' = cursor + 1
           /\ attempted' = Append(attempted, id)
           /\ limiter_calls' = limiter_calls + 1
           /\ \/ \* DatabasePipeline(...) raised
                 /\ PointReturn(w, point_exception(id, "Model failed to load"), p)
                 /\ UNCHANGED <<provider_requests, sp_photos>>
              \/ \E o \in PointOutcomes :
                    /\ PointReturn(w, point_result(id, o), p)
                    /\ provider_requests' =
                          provider_requests + 1 + o.summary.total_images_fetched
                    /\ sp_photos' =
                          IF o.summary.successful_database_saves > 0
                          THEN sp_photos \cup {[point |-> id, street_point_id |-> 0]}
                          ELSE sp_photos
    /\ UNCHANGED <<run_args, run_pc, street_points, batch_start, batch_points,
                   overall_stats>>
    /\ UNCHANGED <<db_vars, points_started, batch_results, collected>>

\* main, lines 246-276, once process_batch_parallel has returned: the
\* tallies join overall_stats, then line 269 takes len() of the integer
\* batch_results['processed'] unless batch_duration is 0; the TypeError is
\* logged and re-raised by lines 307-309.  Otherwise the loop goes on to
\* the next batch or main ends.
MainBatchEnd ==
    /\ run_args.mode = "parallel"
    /\ run_pc = "batch"
    /\ cursor = Len(batch_points)
    /\ \A w \in Workers : pt_pc[w] = "idle"
    /\ overall_stats' =
          [overall_stats EXCEPT
             !.processed = @ + batch_results.processed,
             !.successful = @ + batch_results.successful,
             !.no_images = @ + batch_results.no_images,
             !.failed = @ + batch_results.failed,
             !.total_images = @ + batch_results.total_images,
             !.total_saved = @ + batch_results.total_saved,
             !.total_errors = @ + Len(batch_results.errors)]
    /\ \E batch_duration \in {0, 1} :
          LET total_points == Len(street_points)
              batch_size == run_args.batch_size
              total_batches == (total_points + batch_size - 1) \div batch_size
              batch_num == batch_start \div batch_size
          IN  IF batch_duration > 0
              THEN /\ run_pc' = "type_error"
                   /\ UNCHANGED <<batch_start, batch_points, cursor, batch_results>>
              ELSE IF batch_num + 1 < total_batches
              THEN /\ run_pc' = "batch"
                   /\ batch_start' = (batch_num + 1) * batch_size
                   /\ batch_points' = SubSeq(street_points, batch_start' + 1,
                                             Min2(batch_start' + batch_size, total_points))
                   /\ cursor' = 0
                   /\ batch_results' = NoBatchResults
              ELSE /\ run_pc' = "finished"
                   /\ UNCHANGED <<batch_start, batch_points, cursor, batch_results>>
    /\ UNCHANGED <<run_args, street_points, attempted, limiter_calls,
                   provider_requests, sp_photos>>
    /\ UNCHANGED <<db_vars, pt_pc, pt, pt_result, points_started, collected>>

\* process_all_street_points, lines 358-380: the rows are counted and the
\* loop over range(start_offset, total_count, batch_size) is entered.
AllStart ==
    /\ run_args.mode = "all_points"
    /\ run_pc = "start"
    /\ \/ \* the COUNT query raised
          /\ run_pc' = "db_error"
          /\ UNCHANGED batch_start
       \/ LET total_count == Len(street_points_table)
          IN  IF run_args.start_offset < total_count
              THEN /\ run_pc' = "select"
                   /\ batch_start' = run_args.start_offset
              ELSE /\ run_pc' = "finished"
                   /\ UNCHANGED batch_start
    /\ UNCHANGED <<run_args, street_points, batch_points, cursor, overall_stats,
                   attempted, limiter_calls, provider_requests, sp_photos>>
    /\ UNCHANGED <<db_vars, batch_vars>>

\* Variant of AllSelect whose query has no OFFSET.
AllSelect_without_offset ==
    /\ run_args.mode = "all_points"
    /\ run_pc = "select"
    /\ \/ \* the query raised: nothing catches it
          /\ run_pc' = "db_error"
          /\ UNCHANGED <<batch_points, cursor>>
       \/ /\ run_pc' = "batch"
          /\ batch_points' = SubSeq(street_points_table, 1,
                                    Min2(run_args.batch_size,
                                         Len(street_points_table)))
          /\ cursor' = 0
    /\ UNCHANGED <<run_args, street_points, batch_start, overall_stats, attempted,
                   limiter_calls, provider_requests, sp_photos>>
    /\ UNCHANGED <<db_vars, batch_vars>>

\* Lines 383-393: SELECT ... ORDER BY id LIMIT batch_size OFFSET offset.
AllSelect ==
    /\ run_args.mode = "all_points"
    /\ run_pc = "select"
    /\ \/ \* the query raised: nothing catches it
          /\ run_pc' = "db_error"
          /\ UNCHANGED <<batch_points, cursor>>
       \/ /\ run_pc' = "batch"
          /\ batch_points' = SubSeq(street_points_table, batch_start + 1,
                                    Min2(batch_start + run_args.batch_size,
                                         Len(street_points_table)))
          /\ cursor' = 0
    /\ UNCHANGED <<run_args, street_points, batch_start, overall_stats, attempted,
                   limiter_calls, provider_requests, sp_photos>>
    /\ UNCHANGED <<db_vars, batch_vars>>

\* Lines 396-418: the next point of the batch.  process_coordinate_with_db
\* is called with street_point_id; the error dict has no 'fetch_result'
\* key, so line 410 raises KeyError and the point is counted in
\* total_errors.  After the last point of the batch come the progress
\* report (lines 420-435, where line 425 divides by elapsed_total) and the
\* next value of the range.
AllPoint ==
    /\ run_args.mode = "all_points"
    /\ run_pc = "batch"
    /\ cursor < Len(batch_points)
    /\ \E o \in PointOutcomes, elapsed_total \in {0, 1} :
          LET id == batch_points[cursor + 1]
              has_fetch_result == o.success \/ o.error = "no error key"
              counters ==
                 IF has_fetch_result
                 THEN [overall_stats EXCEPT
                         !.processed_points = @ + 1,
                         !.total_images_found = @ + o.summary.total_images_fetched,
                         !.total_images_saved = @ + o.summary.successful_database_saves,
                         !.total_duplicates = @ + o.summary.duplicates_found]
                 ELSE [overall_stats EXCEPT !.total_errors = @ + 1]
          IN  /\ attempted' = Append(attempted, id)
              /\ provider_requests' =
                    provider_requests + 1 + o.summary.total_images_fetched
              /\ sp_photos' =
                    IF o.summary.successful_database_saves > 0
                    THEN sp_photos \cup {[point |-> id, street_point_id |-> id]}
                    ELSE sp_photos
              /\ overall_stats' = counters
              /\ cursor' = cursor + 1
              /\ IF cursor + 1 < Len(batch_points)
                 THEN UNCHANGED <<run_pc, batch_start>>
                 ELSE IF counters.processed_points > 0 /\ elapsed_total = 0
                 THEN /\ run_pc' = "zero_division"
                      /\ UNCHANGED batch_start
                 ELSE IF batch_start + run_args.batch_size < Len(street_points_table)
                 THEN /\ run_pc' = "select"
                      /\ batch_start' = batch_start + run_args.batch_size
                 ELSE /\ run_pc' = "finished"
                      /\ UNCHANGED batch_start
    /\ UNCHANGED <<run_args, street_points, batch_points, limiter_calls>>
    /\ UNCHANGED <<db_vars, batch_vars>>

\* ------------------------------------------------------------------------
\* Client calls (mapillary_client.py, os_features_client.py,
\* os_names_client.py).  A request is described by the number of times the
\* server fails (requests.RequestException) before it answers; a call
\* yields how it ended, the requests it sent and the backoff sleeps it took.
\* ------------------------------------------------------------------------
MaxRetryAttempts == 3

ClientCallResult(outcome, attempts, sleeps) ==
    [outcome |-> outcome, attempts |-> attempts, sleeps |-> sleeps]

\* MapillaryClient.fetch_images: one requests.get, raise_for_status.
fetch_images(failures) ==
    ClientCallResult(IF failures > 0 THEN "raised" ELSE "returned", 1, <<>>)

\* MapillaryClient.download_images on one image: download_image sends one
\* request; a RequestException is caught and the image is left out.
download_images(failures) ==
    ClientCallResult(IF failures > 0 THEN "skipped" ELSE "returned", 1, <<>>)

\* OSNamesClient.get_nearest_postcode_info: one session.get; Timeout and
\* RequestException are logged and re-raised.
get_nearest_postcode_info(failures) ==
    ClientCallResult(IF failures > 0 THEN "raised" ELSE "returned", 1, <<>>)

\* OSFeaturesClient._fetch_toid_features_with_retry, from the iteration
\* `attempt` of its loop on.
RECURSIVE fetch_toid_features_with_retry(_, _, _, _)
fetch_toid_features_with_retry(retry_attempts, failures, attempt, sleeps) ==
    IF attempt >= retry_attempts
    THEN ClientCallResult("fallback", attempt, sleeps)
    ELSE IF attempt >= failures
    THEN ClientCallResult("returned", attempt + 1, sleeps)
    ELSE IF attempt = retry_attempts - 1
    THEN ClientCallResult("raised", attempt + 1, sleeps)
    ELSE fetch_toid_features_with_retry(retry_attempts, failures, attempt + 1,
                                        Append(sleeps, 2 ^ attempt))

\* ------------------------------------------------------------------------
\* OSFeaturesClient.fetch_all_toid_features.  The provider holds a list of
\* raw features for the bbox, each parsable or not; a page request returns
\* the raw features startIndex .. startIndex + count - 1.  max_features is
\* -1 for None.
\* ------------------------------------------------------------------------
MaxProvider == 4

MaxCount == 3

MAX_COUNT_PER_REQUEST == 1000

\* _parse_toid_features drops the features without coordinates, easting,
\* northing or toid.
parse_toid_features(features) ==
    SelectSeq(features, LAMBDA f : f.valid)

\* The while loop of fetch_all_toid_features from the page at `offset` on.
RECURSIVE fetch_all_toid_features(_, _, _, _, _)
fetch_all_toid_features(provider, count, max_features, offset, all_features) ==
    LET page == SubSeq(provider, offset + 1, Min2(offset + count, Len(provider)))
        response == parse_toid_features(page)
        extended == all_features \o response
    IN  IF Len(response) < count
        THEN extended
        ELSE IF max_features \notin {-1, 0} /\ Len(extended) >= max_features
        THEN SubSeq(extended, 1, max_features)
        ELSE fetch_all_toid_features(provider, count, max_features,
                                     offset + count, extended)

\* ------------------------------------------------------------------------
\* Compass headings (database_pipeline.py).  A heading is None, a number
\* (in tenths of a degree), a text holding a number, or any other text.
\* ------------------------------------------------------------------------
NoAngle == [kind |-> "none", value |-> 0]

validate_compass_angle(angle) ==
    IF angle.kind = "none" THEN NoAngle
    ELSE IF angle.kind = "text" THEN NoAngle
    ELSE IF 0 <= angle.value /\ angle.value < 3600
    THEN [kind |-> "number", value |-> angle.value]
    ELSE NoAngle

CompassInputs ==
    { NoAngle, [kind |-> "text", value |-> 0] }
    \cup { [kind |-> "number", value |-> v] : v \in {-1, 0, 1800, 3599, 3600, 4000} }
    \cup { [kind |-> "numeric_text", value |-> v] : v \in {900, 3600} }

\* ------------------------------------------------------------------------
\* The detection model (yolo_model.py) and the service that owns it
\* (road_quality_service.py).  The harness holds one YOLOv8RoadModel and
\* applies a sequence of operations to it; `yolo` says how the YOLO
\* constructor ends in an operation that loads: "ok", "ImportError" (the
\* import of ultralytics fails) or "Exception".  Beside the fields of the
\* object the record keeps what the last operation did: the exception that
\* left it and its message, its return value, what it printed to the
\* standard output (without the text of the cause), and whether the service
\* instance exists; inference_runs counts the calls of self.model(image)
\* and unloaded_runs those made while is_loaded was false.
\* ------------------------------------------------------------------------
MaxOps == 2

\* RoadQualityModel.__init__: no model, is_loaded False.
NoModel ==
    [is_loaded |-> FALSE, model |-> "None", inference_runs |-> 0,
     unloaded_runs |-> 0, op |-> "none", raised |-> "none", message |-> "",
     printed |-> "", returned |-> "None", service |-> "none"]

\* YOLOv8RoadModel.load_model, lines 26-44.
load_model(m, yolo) ==
    IF yolo = "ok"
    THEN [m EXCEPT !.model = "YOLO", !.is_loaded = TRUE, !.op = "load_model",
                   !.raised = "none", !.message = "", !.printed = "",
                   !.returned = "True"]
    ELSE IF yolo = "ImportError"
    THEN [m EXCEPT !.op = "load_model", !.raised = "none", !.message = "",
                   !.printed = "ultralytics not installed",
                   !.returned = "False"]
    ELSE [m EXCEPT !.op = "load_model", !.raised = "none", !.message = "",
                   !.printed = "Failed to load YOLOv8 model",
                   !.returned = "False"]

\* Variant of predict without the is_loaded test of lines 48-49.
predict_unguarded(m) ==
    [m EXCEPT !.op = "predict", !.raised = "none", !.message = "",
              !.printed = "", !.returned = "predictions",
              !.inference_runs = @ + 1,
              !.unloaded_runs = @ + (IF m.is_loaded THEN 0 ELSE 1)]

\* YOLOv8RoadModel.predict, lines 48-63.
predict(m) ==
    IF ~m.is_loaded
    THEN [m EXCEPT !.op = "predict", !.raised = "RuntimeError",
                   !.message = "Model not loaded", !.printed = "",
                   !.returned = "None"]
    ELSE [m EXCEPT !.op = "predict", !.raised = "none", !.message = "",
                   !.printed = "", !.returned = "predictions",
                   !.inference_runs = @ + 1,
                   !.unloaded_runs = @ + (IF m.is_loaded THEN 0 ELSE 1)]

\* RoadQualityService.__init__ and _initialize: a new model is created
\* and loaded; the constructor raises when load_model returns False.  The
\* counters of the harness are carried over.
initialize(m, yolo) ==
    LET created == [NoModel EXCEPT !.inference_runs = m.inference_runs,
                                   !.unloaded_runs = m.unloaded_runs]
        loaded == load_model(created, yolo)
    IN  IF loaded.returned = "True"
        THEN [loaded EXCEPT !.op = "RoadQualityService", !.returned = "None",
                            !.service = "exists"]
        ELSE [loaded EXCEPT !.op = "RoadQualityService", !.returned = "None",
                            !.raised = "RuntimeError",
                            !.message = "Model failed to load"]

\* ------------------------------------------------------------------------
\* Images of one point: the provider's entries, their download, and the
\* pairing of the downloaded files with the entries in
\* process_coordinate_with_db.  An entry is [id, downloads]: `id` stands
\* for the whole metadata dict (id, geometry, captured_at, compass_angle),
\* `downloads` says whether its download works.
\* ------------------------------------------------------------------------
\* MapillaryClient.download_images: the path "<id>.jpg" of every entry
\* whose download did not raise, in the order of the entries.
downloaded_paths(images) ==
    LET ok(img) == img.downloads
        kept == SelectSeq(images, ok)
    IN  [i \in 1..Len(kept) |-> [jpg |-> kept[i].id]]

\* process_coordinate_with_db, lines 273-304: the arguments of the
\* process_image_with_db call of every downloaded path; source_image_id 0
\* stands for the None of an empty metadata dict.
process_coordinate_calls(image_paths, image_metadata_list) ==
    [i \in 1..Len(image_paths) |->
        [image_path |-> image_paths[i],
         source_image_id |-> IF i <= Len(image_metadata_list)
                             THEN image_metadata_list[i].id ELSE 0]]

\* ------------------------------------------------------------------------
\* DatabaseService.transaction(), database_service.py lines 65-81.  A use
\* `u` says which of the steps work: get_connection, the body of the with
\* statement (no exception escapes it), commit, rollback and close; a step
\* that does not work raises an Exception.  The result lists the calls made
\* on the connection in their order, whether the commit took effect, and
\* the step whose exception leaves the with statement ("none": it ends
\* normally).
\* ------------------------------------------------------------------------
TransactionResult(calls, body_ran, committed, escaped) ==
    [calls |-> calls, body_ran |-> body_ran, committed |-> committed,
     escaped |-> escaped]

\* Variant of transaction whose except branch does not call rollback.
transaction_without_rollback(u) ==
    IF ~u.connect
    THEN TransactionResult(<<>>, FALSE, FALSE, "get_connection")
    ELSE LET cause == IF ~u.body THEN "body"
                      ELSE IF ~u.commit THEN "commit" ELSE "none"
             tried == IF u.body THEN <<"commit">> ELSE <<>>
         IN  TransactionResult(tried \o <<"close">>, TRUE,
                               u.body /\ u.commit,
                               IF ~u.close THEN "close" ELSE cause)

transaction(u) ==
    IF ~u.connect
    THEN \* line 70 raises with conn still None: lines 75 and 80 skip
         TransactionResult(<<>>, FALSE, FALSE, "get_connection")
    ELSE LET cause == IF ~u.body THEN "body"
                      ELSE IF ~u.commit THEN "commit" ELSE "none"
             tried == IF u.body THEN <<"commit">> ELSE <<>>
             handled == IF cause = "none" THEN <<>> ELSE <<"rollback">>
             raised == IF cause # "none" /\ ~u.rollback THEN "rollback" ELSE cause
         IN  TransactionResult(tried \o handled \o <<"close">>, TRUE,
                               u.body /\ u.commit,
                               IF ~u.close THEN "close" ELSE raised)

\* ------------------------------------------------------------------------
\* TOIDAnalysisPipeline: the session statistics of one instance over a
\* sequence of process_toid_batch calls.  A batch is the sequence of its
\* street data entries, each TRUE when its processing raises inside the
\* try of lines 231-285.  success_rate is in whole percent, rounded down.
\* ------------------------------------------------------------------------
MaxToidBatches == 2

MaxStreetData == 2

\* __init__, lines 62-73, with no call made yet.
NoSession ==
    [session_stats |-> [bboxes_created |-> 0, processing_errors |-> 0],
     results |-> [toid_results |-> 0, processing_errors |-> 0,
                  session_summary |-> [processing_errors |-> 0,
                                       success_rate |-> 0]],
     street_data |-> <<>>, calls |-> 0]

\* process_toid_batch, lines 210-303, on the instance `self`.
process_toid_batch(self, street_data) ==
    LET raises(street_entry) == street_entry
        failed == Len(SelectSeq(street_data, raises))
        session_stats ==
            [bboxes_created |-> self.session_stats.bboxes_created
                                   + (Len(street_data) - failed),
             processing_errors |-> self.session_stats.processing_errors + failed]
    IN  [session_stats |-> session_stats,
         results |->
            [toid_results |-> Len(street_data) - failed,
             processing_errors |-> failed,
             session_summary |->
                [processing_errors |-> session_stats.processing_errors,
                 success_rate |->
                    IF Len(street_data) > 0
                    THEN ((Len(street_data) - session_stats.processing_errors) * 100)
                             \div Len(street_data)
                    ELSE 0]],
         street_data |-> street_data,
         calls |-> self.calls + 1]

\* The inputs of the client harness.
ClientInputs ==
    { [kind |-> "request", call |-> c, retry_attempts |-> r, failures |-> f] :
        c \in {"fetch_images", "download_images", "fetch_toid_features",
               "get_nearest_postcode_info"},
        r \in 0..MaxRetryAttempts, f \in 0..MaxRetryAttempts }
    \cup { [kind |-> "pages", provider |-> p, count |-> c, max_features |-> m] :
             p \in UNION { { [i \in 1..n |-> [toid |-> i, valid |-> v[i]]] :
                              v \in [1..n -> BOOLEAN] } : n \in 0..MaxProvider },
             c \in 1..MaxCount, m \in (-1)..(MaxProvider - 1) }
    \cup { [kind |-> "compass", via |-> v, compass_angle |-> a] :
             v \in {"process_coordinate_with_db", "process_image_with_db"},
             a \in CompassInputs }
    \cup { [kind |-> "model", ops |-> o] :
             o \in UNION { [1..n -> [op : {"load_model", "RoadQualityService"},
                                     yolo : {"ok", "ImportError", "Exception"}]
                                    \cup [op : {"predict"}, yolo : {"ok"}]] :
                           n \in 1..MaxOps } }
    \cup { [kind |-> "images", image_metadata |-> m] :
             m \in UNION { { [i \in 1..n |-> [id |-> i, downloads |-> d[i]]] :
                              d \in [1..n -> BOOLEAN] } : n \in 1..MaxProvider } }
    \cup [kind : {"transaction"}, connect : BOOLEAN, body : BOOLEAN,
          commit : BOOLEAN, rollback : BOOLEAN, close : BOOLEAN]
    \cup { [kind |-> "toid_batches", batches |-> b] :
             b \in UNION { [1..n -> UNION { [1..k -> BOOLEAN] :
                                              k \in 0..MaxStreetData }] :
                           n \in 1..MaxToidBatches } }

\* One request of a client with `failures` failing answers ahead.  The
\* Mapillary client and get_nearest_postcode_info do not read retry_attempts.
ClientRequest ==
    /\ cPc = "ready"
    /\ cIn.kind = "request"
    /\ cOut' = IF cIn.call = "fetch_images" THEN fetch_images(cIn.failures)
               ELSE IF cIn.call = "download_images" THEN download_images(cIn.failures)
               ELSE IF cIn.call = "get_nearest_postcode_info"
               THEN get_nearest_postcode_info(cIn.failures)
               ELSE fetch_toid_features_with_retry(cIn.retry_attempts, cIn.failures,
                                                   0, <<>>)
    /\ cPc' = "done"
    /\ UNCHANGED cIn

\* The next operation of the sequence is applied to the model.
\* assess_road_quality reaches predict through the service's model (line 44
\* of road_quality_service.py).
ModelStep ==
    /\ cPc = "ready"
    /\ cIn.kind = "model"
    /\ LET o == Head(cIn.ops)
       IN  cOut' = IF o.op = "load_model" THEN load_model(cOut, o.yolo)
                   ELSE IF o.op = "predict" THEN predict(cOut)
                   ELSE initialize(cOut, o.yolo)
    /\ cIn' = [cIn EXCEPT !.ops = Tail(@)]
    /\ cPc' = IF Len(cIn.ops) = 1 THEN "done" ELSE "ready"

\* fetch_images_at_point returns the downloaded paths beside the whole
\* metadata list (fetcher_service.py lines 86-105) and
\* process_coordinate_with_db persists each path.
ProcessCoordinateImages ==
    /\ cPc = "ready"
    /\ cIn.kind = "images"
    /\ cOut' = [calls |-> process_coordinate_calls(downloaded_paths(cIn.image_metadata),
                                                   cIn.image_metadata)]
    /\ cPc' = "done"
    /\ UNCHANGED cIn

\* One `with self.transaction() as conn:` statement.
TransactionUse ==
    /\ cPc = "ready"
    /\ cIn.kind = "transaction"
    /\ cOut' = transaction(cIn)
    /\ cPc' = "done"
    /\ UNCHANGED cIn

\* The next process_toid_batch call on the instance.
ProcessToidBatch ==
    /\ cPc = "ready"
    /\ cIn.kind = "toid_batches"
    /\ cOut' = process_toid_batch(cOut, Head(cIn.batches))
    /\ cIn' = [cIn EXCEPT !.batches = Tail(@)]
    /\ cPc' = IF Len(cIn.batches) = 1 THEN "done" ELSE "ready"

\* fetch_all_toid_features(bbox, count, max_features), lines 63-93.
FetchAllToidFeatures ==
    /\ cPc = "ready"
    /\ cIn.kind = "pages"
    /\ cOut' = [features |->
                  fetch_all_toid_features(cIn.provider,
                                          Min2(cIn.count, MAX_COUNT_PER_REQUEST),
                                          cIn.max_features, 0, <<>>)]
    /\ cPc' = "done"
    /\ UNCHANGED cIn

\* The heading that reaches save_photo.  process_coordinate_with_db hands
\* process_image_with_db the validated heading of the provider entry (line
\* 302); process_image_with_db passes its compass_angle argument on as it
\* is (lines 152 and 180) and save_photo inserts it (database_service.py
\* lines 183-193).  The insert of a text that holds no number fails, a text
\* holding a number is stored as that number.
SaveCompass ==
    /\ cPc = "ready"
    /\ cIn.kind = "compass"
    /\ LET compass_angle ==
              IF cIn.via = "process_coordinate_with_db"
              THEN validate_compass_angle(cIn.compass_angle)
              ELSE cIn.compass_angle
       IN  cOut' = [persisted |-> compass_angle.kind # "text",
                    compass_angle |->
                       IF compass_angle.kind = "numeric_text"
                       THEN [kind |-> "number", value |-> compass_angle.value]
                       ELSE compass_angle]
    /\ cPc' = "done"
    /\ UNCHANGED cIn

\* ------------------------------------------------------------------------
\* Initial states and specifications
\* ------------------------------------------------------------------------
ClientOff ==
    /\ cIn = [kind |-> "off"]
    /\ cPc = "off"
    /\ cOut = [persisted |-> FALSE, compass_angle |-> NoAngle]

RunOff ==
    /\ run_args = [mode |-> "off", rows |-> 0, start_offset |-> 0, batch_size |-> 1]
    /\ run_pc = "off"
    /\ street_points = <<>>
    /\ batch_start = 0
    /\ batch_points = <<>>
    /\ cursor = 0
    /\ overall_stats = [processed |-> 0]
    /\ attempted = <<>>
    /\ limiter_calls = 0
    /\ provider_requests = 0
    /\ sp_photos = {}

BatchInit ==
    /\ pt_pc = [w \in Workers |-> "idle"]
    /\ pt = [w \in Workers |-> NoPoint]
    /\ pt_result = [w \in Workers |-> NoPointResult]
    /\ points_started = 0
    /\ batch_results = NoBatchResults
    /\ collected = <<>>

MetricsOff ==
    /\ mPredictions = NoPredictions
    /\ mPc = "off"
    /\ mMetrics = from_model_output(NoPredictions)

GateOff ==
    /\ gImage = GoodImage
    /\ gPc = "off"
    /\ gQuality = NoQuality
    /\ gResult = NoResult
    /\ gSegCalls = 0
    /\ gHeurCalls = 0
    /\ gCalls = <<>>
    /\ gRaised = FALSE

DBInit ==
    /\ photos = {}
    /\ quality_results = {}
    /\ road_analysis_results = {}
    /\ pc = [w \in Workers |-> "idle"]
    /\ call = [w \in Workers |-> NoCall]
    /\ res = [w \in Workers |-> NoRes]
    /\ save_to_db = [w \in Workers |-> TRUE]
    /\ calls_started = 0
    /\ log = <<>>

RLInit ==
    /\ clock = 0
    /\ requests_times = <<>>
    /\ lock = 0
    /\ rl_pc = [w \in Workers |-> "idle"]
    /\ rl_now = [w \in Workers |-> 0]
    /\ rl_oldest = [w \in Workers |-> -1]
    /\ rl_wake = [w \in Workers |-> 0]
    /\ rl_calls = 0
    /\ releases = <<>>

\* Parallel workers persisting images into one store, as the workers of
\* process_batch_parallel do: each builds its own DatabasePipeline, whose
\* save_to_db is True and is never switched, and hands it images of
\* source "mapillary".
Init == GateOff /\ DBInit /\ RLInit /\ MetricsOff /\ BatchInit /\ RunOff /\ ClientOff

Next ==
    /\ \E w \in Workers : WorkerStep(w, MapillaryMetas)
    /\ UNCHANGED <<gate_vars, rl_vars, metrics_vars, batch_vars, run_vars, client_vars>>

Spec == Init /\ [][Next]_vars

\* One pipeline persisting images one after the other; its owner may switch
\* saving off and on between calls.
NextSeq ==
    /\ \/ WorkerStep(1, Metas)
       \/ disable_database_saves(1)
       \/ enable_database_saves(1)
    /\ UNCHANGED <<gate_vars, rl_vars, metrics_vars, batch_vars, run_vars, client_vars>>

SpecSeq == Init /\ [][NextSeq]_vars

\* The quality gate and the orchestrator applied to one image.
InitGate ==
    /\ gImage \in GateImages
    /\ gPc = "ready"
    /\ gQuality = NoQuality
    /\ gResult = NoResult
    /\ gSegCalls = 0
    /\ gHeurCalls = 0
    /\ gCalls = <<>>
    /\ gRaised = FALSE
    /\ DBInit
    /\ RLInit
    /\ MetricsOff
    /\ BatchInit
    /\ RunOff
    /\ ClientOff

NextGate ==
    /\ \/ GateEvaluate
       \/ GateProcessImage
       \/ GateCreateFailed
    /\ UNCHANGED <<db_vars, rl_vars, metrics_vars, batch_vars, run_vars, client_vars>>

SpecGate == InitGate /\ [][NextGate]_vars

\* from_model_output applied to one raw model output.
InitMetrics ==
    /\ mPredictions \in ModelOutputs
    /\ mPc = "ready"
    /\ mMetrics = from_model_output(NoPredictions)
    /\ GateOff
    /\ DBInit
    /\ RLInit
    /\ BatchInit
    /\ RunOff
    /\ ClientOff

NextMetrics ==
    /\ FromModelOutput
    /\ UNCHANGED <<gate_vars, db_vars, rl_vars, batch_vars, run_vars, client_vars>>

SpecMetrics == InitMetrics /\ [][NextMetrics]_vars

\* One batch of street points processed by the pool of workers.
NextBatch ==
    /\ \/ \E w \in Workers : PointStart(w)
       \/ \E w \in Workers : PointImageStep(w)
       \/ \E w \in Workers : PointAppend(w)
       \/ \E w \in Workers : PointSummary(w)
       \/ \E w \in Workers : BatchCollect(w)
    /\ UNCHANGED <<gate_vars, rl_vars, metrics_vars, run_vars, client_vars>>

SpecBatch == Init /\ [][NextBatch]_vars

\* A whole run: main of run_parallel_analysis with its batch_size, or
\* process_all_street_points with a start_offset and a batch_size.  The
\* photos table is empty, or an earlier run of process_all_street_points
\* has saved a photo for the first row.
InitRun ==
    /\ run_args \in
          { [mode |-> "parallel", rows |-> n, start_offset |-> 0,
             batch_size |-> BatchSize] : n \in 0..MaxRows }
          \cup { [mode |-> "all_points", rows |-> x[1], start_offset |-> x[2],
                  batch_size |-> x[3]] :
                   x \in (0..MaxRows) \X (0..(MaxRows + 1)) \X (1..BatchSize) }
    /\ run_pc = "start"
    /\ street_points = <<>>
    /\ batch_start = 0
    /\ batch_points = <<>>
    /\ cursor = 0
    /\ overall_stats =
          IF run_args.mode = "parallel"
          THEN [processed |-> 0, successful |-> 0, no_images |-> 0, failed |-> 0,
                total_images |-> 0, total_saved |-> 0, total_errors |-> 0]
          ELSE [processed_points |-> 0, total_images_found |-> 0,
                total_images_saved |-> 0, total_duplicates |-> 0, total_errors |-> 0]
    /\ attempted = <<>>
    /\ limiter_calls = 0
    /\ provider_requests = 0
    /\ sp_photos \in IF run_args.rows > 0
                     THEN {{}, {[point |-> 101, street_point_id |-> 101]}}
                     ELSE {{}}
    /\ GateOff
    /\ DBInit
    /\ RLInit
    /\ MetricsOff
    /\ BatchInit
    /\ ClientOff

NextRun ==
    /\ \/ MainStart
       \/ \E w \in Workers : RunPoint(w)
       \/ (\E w \in Workers : BatchCollect(w)) /\ UNCHANGED run_vars
       \/ MainBatchEnd
       \/ AllStart
       \/ AllSelect
       \/ AllPoint
    /\ UNCHANGED <<gate_vars, rl_vars, metrics_vars, client_vars>>

SpecRun == InitRun /\ [][NextRun]_vars

\* One client call, one paginated fetch or one heading on its way to the
\* photos table.
InitClients ==
    /\ cIn \in ClientInputs
    /\ cPc = "ready"
    /\ cOut = IF cIn.kind = "model" THEN NoModel
              ELSE IF cIn.kind = "toid_batches" THEN NoSession
              ELSE [persisted |-> FALSE, compass_angle |-> NoAngle]
    /\ GateOff
    /\ DBInit
    /\ RLInit
    /\ MetricsOff
    /\ BatchInit
    /\ RunOff

NextClients ==
    /\ \/ ClientRequest
       \/ ModelStep
       \/ ProcessCoordinateImages
       \/ TransactionUse
       \/ ProcessToidBatch
       \/ FetchAllToidFeatures
       \/ SaveCompass
    /\ UNCHANGED <<gate_vars, db_vars, rl_vars, metrics_vars, batch_vars, run_vars>>

SpecClients == InitClients /\ [][NextClients]_vars

\* Workers sharing the rate limiter.
NextRL ==
    /\ \/ \E w \in Workers : RLCall(w)
       \/ \E w \in Workers : RLEnter(w)
       \/ \E w \in Workers : RLSleep(w)
       \/ \E w \in Workers : RLAppend(w)
       \/ Tick
    /\ UNCHANGED <<gate_vars, db_vars, metrics_vars, batch_vars, run_vars, client_vars>>

SpecRL == Init /\ [][NextRL]_vars

\* The workers sharing the rate limiter under fair scheduling.  A thread
\* inside the with block runs on: its sleep ends and it appends and releases
\* (weak fairness).  A thread waiting for the lock gets it if the lock is
\* free again and again (strong fairness: the fair lock scheduling under
\* which the limiter's liveness is stated; threading.Lock itself promises
\* no order among the waiting threads).
SpecRLFair ==
    /\ Init
    /\ [][NextRL]_vars
    /\ \A w \in Workers :
          /\ SF_vars(RLEnter(w) /\ UNCHANGED <<gate_vars, db_vars, metrics_vars,
                                              batch_vars, run_vars, client_vars>>)
          /\ WF_vars(RLSleep(w) /\ UNCHANGED <<gate_vars, db_vars, metrics_vars,
                                              batch_vars, run_vars, client_vars>>)
          /\ WF_vars(RLAppend(w) /\ UNCHANGED <<gate_vars, db_vars, metrics_vars,
                                               batch_vars, run_vars, client_vars>>)

\* ------------------------------------------------------------------------
\* Claims
\* ------------------------------------------------------------------------
DoneWorkers == { w \in Workers : pc[w] = "done" }

SamePrimaryKey(m1, m2) ==
    /\ m1.source_image_id # ""
    /\ m1.source = m2.source
    /\ m1.source_image_id = m2.source_image_id

\* C1: when two or more parallel workers have each run process_image_with_db
\* for the same non-empty (source, source_image_id), on a store that did not
\* hold the image when they started and without any database fault, the
\* store holds exactly one photos row for that key and all workers but one
\* got the duplicate outcome.
C1_ConcurrentDuplicateSafe ==
    \A w \in DoneWorkers :
        LET S == { v \in DoneWorkers :
                      /\ SamePrimaryKey(call[w].meta, call[v].meta)
                      /\ call[v].started_absent
                      /\ call[v].failed_step = ""
                      /\ save_to_db[v] }
        IN  (w \in S /\ Cardinality(S) >= 2) =>
               /\ Cardinality(primary_matches(photos, call[w].meta)) = 1
               /\ Cardinality({ v \in S : res[v].kind = "duplicate" }) = Cardinality(S) - 1

\* C2: if the road-analysis insert of a save failed, then after the call no
\* photos row and no quality_results row exists for that image.
C2_AtomicSave ==
    \A w \in DoneWorkers :
        call[w].failed_step = "road" =>
            /\ ~ \E p \in photos : p.id = call[w].photo_id
            /\ ~ \E q \in quality_results : q.photo_id = call[w].photo_id

\* C3: whenever no save is in progress, every photos row has exactly one
\* quality_results row referencing it, and every quality_results or
\* road_analysis_results row references an existing photos row.
C3_NoPartialResults ==
    (\A w \in Workers : pc[w] \in {"idle", "done"}) =>
        /\ \A p \in photos :
              Cardinality({ q \in quality_results : q.photo_id = p.id }) = 1
        /\ \A q \in quality_results \cup road_analysis_results :
              \E p \in photos : p.id = q.photo_id

\* C4: the number of wait_if_needed calls that return within any 60-second
\* interval never exceeds max_requests: any max_requests + 1 returns span at
\* least 60 seconds.
C4_RateLimitBound ==
    \A i \in 1..Len(releases) :
        i + MaxRequests <= Len(releases) =>
            releases[i + MaxRequests].t - releases[i].t >= Window

\* C5: a wait_if_needed call that finds max_requests calls recorded within
\* the last 60 seconds keeps the list untouched while it sleeps, returns
\* only when the oldest of those calls is at least 60 seconds old, and
\* appends its record at that point, after the wait.
C5_BlocksUntilOldestExpires ==
    [][ \A w \in Workers :
          /\ (rl_pc[w] = "sleep" => requests_times' = requests_times)
          /\ (rl_oldest[w] # -1 /\ Len(releases') > Len(releases)
                /\ releases'[Len(releases')].worker = w) =>
                /\ rl_pc[w] = "append"
                /\ clock >= rl_oldest[w] + Window
                /\ requests_times' = Append(requests_times, rl_now[w]) ]_vars

C5_Witness ==
    \E i \in 1..Len(releases) : releases[i].oldest # -1 /\ releases[i].t > releases[i].now

\* C6: of two process_image_with_db calls made in sequence with the same
\* source and the same non-empty source_image_id, the first having saved,
\* the second (its duplicate check not raising) returns the duplicate
\* outcome with the photo id the first created, and the store holds exactly
\* one photos row for the key.
C6_IdempotentPrimaryKey ==
    \A i, j \in 1..Len(log) :
        (/\ i < j
         /\ SamePrimaryKey(log[i].meta, log[j].meta)
         /\ log[i].kind = "saved"
         /\ log[j].failed_step # "check") =>
            /\ log[j].kind = "duplicate"
            /\ log[j].photo_id = log[i].created_photo_id
            /\ Cardinality(primary_matches(photos, log[i].meta)) = 1

C6_Witness ==
    \E i, j \in 1..Len(log) :
        /\ i < j
        /\ SamePrimaryKey(log[i].meta, log[j].meta)
        /\ log[i].kind = "saved"
        /\ log[j].kind = "duplicate"

SameFallbackKey(m1, m2) ==
    /\ m1.source_image_id = ""
    /\ m2.source_image_id = ""
    /\ m1.location # NoLoc
    /\ m1.date_taken # NoDate
    /\ m1.location = m2.location
    /\ m1.date_taken = m2.date_taken

\* C7: of two images without a native id but with identical location and
\* capture timestamp persisted in sequence, the first having saved, the
\* second (its duplicate check not raising) is detected as duplicate and
\* returns the first row's id, and one photos row exists for that location
\* and timestamp.
C7_IdempotentFallbackKey ==
    \A i, j \in 1..Len(log) :
        (/\ i < j
         /\ SameFallbackKey(log[i].meta, log[j].meta)
         /\ log[i].kind = "saved"
         /\ log[j].failed_step # "check") =>
            /\ log[j].kind = "duplicate"
            /\ log[j].photo_id = log[i].created_photo_id
            /\ Cardinality(secondary_matches(photos, log[i].meta)) = 1

C7_Witness ==
    \E i, j \in 1..Len(log) :
        /\ i < j
        /\ SameFallbackKey(log[i].meta, log[j].meta)
        /\ log[i].kind = "saved"
        /\ log[j].kind = "duplicate"

\* C8: when the duplicate check of a call matches (and no database
\* operation of the check raises), the call ends in that step with the
\* duplicate outcome carrying the id of a matching row, with no call to the
\* gate or the analyzer, no insert, and the three tables unchanged.
C8_DuplicateShortCircuit ==
    [][ \A w \in Workers :
          (/\ pc[w] = "check"
           /\ pc'[w] # "check"
           /\ check_duplicate_photo(photos, call[w].meta) # {}
           /\ call'[w].failed_step = "") =>
              /\ pc'[w] = "done"
              /\ res'[w].kind = "duplicate"
              /\ res'[w].photo_id \in
                    { r.id : r \in check_duplicate_photo(photos, call[w].meta) }
              /\ store_vars' = store_vars
              /\ call'[w].gate_calls = 0
              /\ call'[w].analyzer_calls = 0
              /\ call'[w].inserts = 0 ]_vars

C8_Witness ==
    \E w \in Workers :
        /\ pc[w] = "done"
        /\ res[w].kind = "duplicate"
        /\ \E p \in photos : p.id = res[w].photo_id

UsableIffNoReasons(q) == q.is_usable <=> (Len(q.failure_reasons) = 0)

\* C9: every ImageQualityMetrics returned by evaluate, built by
\* create_failed, or carried in the PipelineResult of process_image has
\* is_usable true exactly when failure_reasons is empty.
C9_UsableIffNoFailureReasons ==
    /\ gPc \in {"evaluated", "failed_created", "processed"} => UsableIffNoReasons(gQuality)
    /\ gPc = "processed" => UsableIffNoReasons(gResult.quality_metrics)

C9_Witness ==
    /\ gPc = "evaluated"
    /\ gQuality.is_usable
    /\ gQuality.failure_reasons = <<>>

Stage1Fails(img) ==
    /\ img.exists
    /\ ~img.heur_raises
    /\ (is_blurry(img)[1] \/ is_exposed_poorly(img)[1] \/ is_too_small(img)[1])

\* C10: for an image on which a Stage-1 heuristic (blur, exposure, size)
\* fails, evaluate returns after zero calls to detect_road_surface, with
\* has_sufficient_road false and road_surface_percentage 0.
C10_GateShortCircuit ==
    (gPc \in {"evaluated", "processed"} /\ Stage1Fails(gImage)) =>
        /\ gSegCalls = 0
        /\ gQuality.has_sufficient_road = FALSE
        /\ gQuality.road_surface_percentage = 0

C10_Witness ==
    /\ gPc = "evaluated"
    /\ Stage1Fails(gImage)
    /\ gHeurCalls = 1
    /\ gSegCalls = 0
    /\ ~gQuality.is_usable

\* C11: every PipelineResult returned by process_image carries road_metrics
\* exactly when the gate returned a usable assessment and the analyzer
\* returned metrics; and processed_successfully, the presence of
\* road_metrics and quality_metrics.is_usable of the result are equal.
C11_RoadMetricsIffUsableAndAnalyzed ==
    gPc = "processed" =>
        /\ (~gResult.road_metrics.is_none) <=>
              (gQuality.is_usable /\ gImage.analyzer = "metrics")
        /\ gResult.processed_successfully <=> ~gResult.road_metrics.is_none
        /\ gResult.processed_successfully <=> gResult.quality_metrics.is_usable

C11_Witness ==
    /\ gPc = "processed"
    /\ gQuality.is_usable
    /\ gImage.analyzer = "metrics"
    /\ gResult.processed_successfully
    /\ ~gResult.road_metrics.is_none

CountCalls(calls, name) == Len(SelectSeq(calls, LAMBDA c : c = name))

\* C12: in every run of process_image the first service called is the
\* quality gate (evaluate), called once; the analyzer (assess_road_quality)
\* is called exactly once, after the gate, when the gate returned a usable
\* assessment, and is not called at all otherwise.
C12_GateBeforeAnalyzer ==
    gPc = "processed" =>
        /\ Len(gCalls) >= 1
        /\ gCalls[1] = "evaluate"
        /\ CountCalls(gCalls, "evaluate") = 1
        /\ CountCalls(gCalls, "assess_road_quality") =
              (IF gQuality.is_usable THEN 1 ELSE 0)

C12_Witness ==
    /\ gPc = "processed"
    /\ gQuality.is_usable
    /\ gCalls = <<"evaluate", "assess_road_quality">>

\* C13: when the gate returns a usable assessment and the analyzer returns
\* None, process_image returns processed_successfully false, no
\* road_metrics, and a quality assessment with is_usable false whose
\* failure_reasons is exactly [PROCESSING_ERROR].
C13_FailClosedDowngrade ==
    (gPc = "processed" /\ gQuality.is_usable /\ gImage.analyzer = "none") =>
        /\ ~gResult.processed_successfully
        /\ gResult.road_metrics.is_none
        /\ ~gResult.quality_metrics.is_usable
        /\ gResult.quality_metrics.failure_reasons = <<PROCESSING_ERROR>>

C13_Witness ==
    /\ gPc = "processed"
    /\ gQuality.is_usable
    /\ gImage.analyzer = "none"
    /\ gCalls = <<"evaluate", "assess_road_quality">>
    /\ gResult.quality_metrics.failure_reasons = <<PROCESSING_ERROR>>

FailedWith(q, failure_reason) ==
    /\ ~q.is_usable
    /\ q.failure_reasons = <<failure_reason>>
    /\ q.overall_score = 0

C15_ProcessImageNeverRaises ==
    gPc = "processed" =>
        /\ ~gRaised
        /\ (gQuality.is_usable /\ gImage.analyzer = "raises") =>
              /\ ~gResult.processed_successfully
              /\ gResult.road_metrics.is_none
              /\ gResult.quality_metrics = create_failed(PROCESSING_ERROR)

C15_Witness ==
    /\ gPc = "processed"
    /\ gQuality.is_usable
    /\ gImage.analyzer = "raises"
    /\ ~gRaised
    /\ ~gResult.processed_successfully

Stage1Passes(img) == img.exists /\ ~img.heur_raises /\ ~Stage1Fails(img)

\* heuristic_score of a returned assessment, from its three scores.
HeuristicScore(q) == (q.blur_score * 4 + q.exposure_score * 3 + q.size_score * 3) \div 10

\* C16: for an image that passes Stage 1, evaluate returns is_usable false
\* with the reason INSUFFICIENT_ROAD_SURFACE when the measured road
\* coverage is below the configured minimum (25), and is_usable true when
\* it is at or above it; coverage 10 yields INSUFFICIENT_ROAD_SURFACE and
\* overall_score = heuristic_score - 30.
C16_Stage2Threshold ==
    (gPc = "evaluated" /\ Stage1Passes(gImage)) =>
        /\ gQuality.road_surface_percentage < min_road_surface_percentage =>
              /\ ~gQuality.is_usable
              /\ INSUFFICIENT_ROAD_SURFACE \in SeqToSet(gQuality.failure_reasons)
        /\ gQuality.road_surface_percentage >= min_road_surface_percentage =>
              gQuality.is_usable
        /\ gQuality.road_surface_percentage = 10 =>
              /\ gQuality.failure_reasons = <<INSUFFICIENT_ROAD_SURFACE>>
              /\ gQuality.overall_score = HeuristicScore(gQuality) - 30 * Scale

\* C17 as stated: for an image that passes Stage 1 and has road coverage 40,
\* evaluate returns is_usable true and overall_score = heuristic_score + 8.
C17_OverallIsHeuristicPlus8 ==
    (/\ gPc = "evaluated"
     /\ Stage1Passes(gImage)
     /\ gQuality.road_surface_percentage = 40) =>
        /\ gQuality.is_usable
        /\ gQuality.overall_score = HeuristicScore(gQuality) + 8 * Scale

\* C17, amended: for an image that passes Stage 1 and has road coverage 40,
\* evaluate returns is_usable true; its three scores are 100, hence
\* heuristic_score is 100, and overall_score is heuristic_score + 8 clamped
\* to 100, that is 100.
C17_OverallIsClampedHeuristicPlus8 ==
    (/\ gPc = "evaluated"
     /\ Stage1Passes(gImage)
     /\ gQuality.road_surface_percentage = 40) =>
        /\ gQuality.is_usable
        /\ HeuristicScore(gQuality) = 100 * Scale
        /\ gQuality.overall_score = Min2(100 * Scale, HeuristicScore(gQuality) + 8 * Scale)
        /\ gQuality.overall_score = 100 * Scale

C17_Witness ==
    /\ gPc = "evaluated"
    /\ Stage1Passes(gImage)
    /\ gSegCalls = 1
    /\ gQuality.road_surface_percentage = 40
    /\ gQuality.overall_score = 100 * Scale

\* C18: for every raw model output, confidences outside [0, 1] included, the
\* metrics built by from_model_output have crack_confidence,
\* pothole_confidence and surface_roughness within [0, 1] and
\* overall_quality_score within [0, 100].
C18_MetricsWithinRange ==
    mPc = "built" =>
        /\ mMetrics.crack_confidence \in 0..Unit
        /\ mMetrics.pothole_confidence \in 0..Unit
        /\ mMetrics.surface_roughness \in 0..Unit
        /\ mMetrics.overall_quality_score \in 0..(100 * Scale)

\* C19: process_image_with_db never raises to its caller: every call ends
\* by returning a dict, and a call in which the duplicate check, the opening
\* or the commit of the transaction, or one of the three inserts failed
\* returns success false with an error message and without
\* database_saved true.  (Image processing lets no exception out.)
C19_DbCallNeverRaises ==
    \A w \in Workers :
        pc[w] = "done" =>
            /\ res[w].kind \in {"duplicate", "not_saved", "saved", "save_failed", "error"}
            /\ call[w].failed_step # "" =>
                  /\ ~res[w].success
                  /\ "error" \in res[w].keys
                  /\ ~res[w].database_saved

C19_Witness ==
    \E w \in Workers :
        /\ pc[w] = "done"
        /\ call[w].failed_step = "commit"
        /\ call[w].inserts >= 2
        /\ res[w].kind = "error"
        /\ ~res[w].success

\* C20: when persisting an image of a point failed (a database operation of
\* one of its process_image_with_db calls raised), the batch tallies the
\* point as failed, not as successful, and the errors list holds a pair of
\* the point's id and an error message.
C20_PersistenceErrorsReachBatch ==
    \A i \in 1..Len(collected) :
        collected[i].db_failures > 0 =>
            /\ collected[i].counted = "failed"
            /\ \E j \in 1..Len(batch_results.errors) :
                  /\ batch_results.errors[j][1] = collected[i].result.street_point_id
                  /\ batch_results.errors[j][2] # "None"

\* The points a run has to attempt: the loaded unprocessed points, or the
\* rows from position start_offset on.
PointsOfRun ==
    IF run_args.mode = "parallel"
    THEN SeqToSet(street_points)
    ELSE { street_points_table[i] :
             i \in (run_args.start_offset + 1)..Len(street_points_table) }

\* A point of the run ended with an error result or an exception.
SomePointFailed ==
    IF run_args.mode = "parallel"
    THEN \E i \in 1..Len(collected) : collected[i].counted = "failed"
    ELSE run_args.mode = "all_points" /\ overall_stats.total_errors > 0

\* C21: a failed point stops neither its batch nor the run: when a run in
\* which a point failed has ended, without one of the run's own database
\* queries failing and without a standing clock, every point of its batch
\* and of every later batch has been attempted.
C21_FailedPointDoesNotStopRun ==
    (run_pc \in {"finished", "type_error"} /\ SomePointFailed)
        => PointsOfRun \subseteq SeqToSet(attempted)

\* C22: a parallel run over a non-empty list of N unprocessed points, with
\* no initialization error, does not end by an exception, and when it has
\* ended its overall processed count is N.
C22_ParallelRunEndsNormally ==
    (run_args.mode = "parallel" /\ Len(street_points) > 0)
        => /\ run_pc # "type_error"
           /\ run_pc = "finished" => overall_stats.processed = Len(street_points)

\* C23: in a batch run of the scripts every request sent to the image
\* provider (the metadata request and each image download) is preceded by
\* its own wait_if_needed call: the requests sent never outnumber the
\* limiter calls made.
C23_EveryRequestHasItsLimiterCall ==
    run_args.mode = "parallel" => provider_requests <= limiter_calls

\* process_batch_parallel has collected every future of the current batch.
BatchReturned ==
    /\ run_args.mode = "parallel"
    /\ run_pc \in {"batch", "type_error", "finished"}
    /\ cursor = Len(batch_points)
    /\ \A w \in Workers : pt_pc[w] = "idle"

\* The results collected for the point id.
CollectedFor(id) ==
    { i \in 1..Len(collected) : collected[i].result.street_point_id = id }

\* C24: the tallies of process_batch_parallel do not depend on the order in
\* which the workers complete: processed = successful + no_images + failed
\* throughout, and once the batch of n points has returned processed = n
\* and errors holds exactly one (point id, error) pair for each point whose
\* result is not a success, and none for the others.
C24_AggregationIsOrderIndependent ==
    run_args.mode = "parallel" =>
       /\ batch_results.processed =
             batch_results.successful + batch_results.no_images + batch_results.failed
       /\ BatchReturned =>
             /\ batch_results.processed = Len(batch_points)
             /\ Len(batch_results.errors) = batch_results.failed
             /\ \A id \in SeqToSet(batch_points) :
                   \E i \in CollectedFor(id) :
                      LET result == collected[i].result
                          pairs == { j \in 1..Len(batch_results.errors) :
                                       batch_results.errors[j][1] = id }
                      IN  /\ CollectedFor(id) = {i}
                          /\ IF result.status = "success"
                             THEN pairs = {}
                             ELSE \E j \in pairs :
                                     /\ pairs = {j}
                                     /\ batch_results.errors[j][2] = result.error

\* A batch of two points has returned, the second point was collected
\* before the first, and one of them failed.
C24_Witness ==
    /\ BatchReturned
    /\ Len(batch_points) = 2
    /\ batch_results.failed = 1
    /\ \E i \in CollectedFor(batch_points[2]), j \in CollectedFor(batch_points[1]) : i < j

\* The rows at the ordered positions start_offset .. n-1 (counted from 0).
RowsFromOffset ==
    SubSeq(street_points_table, run_args.start_offset + 1, Len(street_points_table))

\* C25: process_all_street_points(start_offset = k, batch_size = b) over n
\* rows attempts the rows at positions k..n-1 in order, each once, and no
\* row below position k: what has been attempted is always a prefix of
\* those rows, and all of them once the run has returned.
C25_OffsetResumption ==
    run_args.mode = "all_points" =>
       /\ Len(attempted) <= Len(RowsFromOffset)
       /\ attempted = SubSeq(RowsFromOffset, 1, Len(attempted))
       /\ run_pc = "finished" => attempted = RowsFromOffset

\* A run resumed at position 1 of three rows in batches of one has returned
\* after a point of it failed.
C25_Witness ==
    /\ run_args = [mode |-> "all_points", rows |-> 3, start_offset |-> 1, batch_size |-> 1]
    /\ run_pc = "finished"
    /\ attempted = <<102, 103>>
    /\ overall_stats.total_errors = 1

\* C26: once a run of a batch script has saved a photo for a street point,
\* the unprocessed-points list a next run computes no longer holds that
\* point.
C26_SavedPointLeavesUnprocessedList ==
    run_args.mode = "parallel" =>
       \A r \in sp_photos :
          r.point \notin SeqToSet(get_all_unprocessed_street_points)

\* C27: a collaborator call whose requests fail is retried with exponential
\* backoff up to the client's attempt count: it sends
\* min(failures + 1, retry_attempts) requests, sleeps 2^k seconds after the
\* k-th of them failed, returns the answer when one of them succeeded and
\* surfaces the failure only when all retry_attempts of them failed.
C27_CollaboratorFailuresAreRetried ==
    (cPc = "done" /\ cIn.kind = "request" /\ cIn.retry_attempts >= 1) =>
       /\ cOut.attempts = Min2(cIn.failures + 1, cIn.retry_attempts)
       /\ cOut.sleeps = [k \in 1..(cOut.attempts - 1) |-> 2 ^ (k - 1)]
       /\ cOut.outcome = IF cIn.failures < cIn.retry_attempts
                         THEN "returned" ELSE "raised"

\* C28: with max_features unset, fetch_all_toid_features returns every
\* valid feature of every page the provider holds for the bbox.
C28_PaginationIsComplete ==
    (cPc = "done" /\ cIn.kind = "pages" /\ cIn.max_features = -1) =>
       cOut.features = parse_toid_features(cIn.provider)

\* C29: when max_features is given, fetch_all_toid_features returns at most
\* max_features features.
C29_AtMostMaxFeatures ==
    (cPc = "done" /\ cIn.kind = "pages" /\ cIn.max_features >= 1) =>
       Len(cOut.features) <= cIn.max_features

\* A heading is null or a number within [0, 360).
HeadingInRange(angle) ==
    \/ angle.kind = "none"
    \/ angle.kind = "number" /\ 0 <= angle.value /\ angle.value < 3600

\* C30: the heading of every ImageRecord persisted through
\* process_coordinate_with_db or through a direct process_image_with_db
\* call is null or within [0, 360), and a heading handed in out of range or
\* unparsable is stored as null.
C30_PersistedHeadingInRange ==
    (cPc = "done" /\ cIn.kind = "compass") =>
       /\ cOut.persisted => HeadingInRange(cOut.compass_angle)
       /\ (cIn.compass_angle.kind = "text" \/ ~HeadingInRange(
               [kind |-> "number", value |-> cIn.compass_angle.value]))
            => (cOut.persisted /\ cOut.compass_angle = NoAngle)

\* C35: for every configured retry_attempts, _fetch_toid_features_with_retry
\* returns at the first successful attempt without a further request; when
\* every request fails it makes exactly retry_attempts attempts, sleeps 2^k
\* seconds after the k-th failed attempt (k = 0 .. retry_attempts - 2) and
\* then re-raises; it never returns the fallback list.
C35_RetryProtocol ==
    (cPc = "done" /\ cIn.kind = "request" /\ cIn.call = "fetch_toid_features") =>
       /\ cOut.outcome # "fallback"
       /\ cOut.outcome = "returned" => cOut.attempts = cIn.failures + 1
       /\ cIn.failures >= cIn.retry_attempts =>
             /\ cOut.outcome = "raised"
             /\ cOut.attempts = cIn.retry_attempts
             /\ cOut.sleeps = [k \in 1..(cIn.retry_attempts - 1) |-> 2 ^ (k - 1)]

\* C31: when constructing the detection model fails with an exception,
\* load_model raises RuntimeError with a message containing 'Failed to load
\* YOLOv8 model' (written here as that message itself), and is_loaded
\* remains false.
C31_LoadFailureRaises ==
    (cIn.kind = "model" /\ cPc = "done" /\ cOut.op = "load_model"
       /\ cOut.printed = "Failed to load YOLOv8 model") =>
          /\ cOut.raised = "RuntimeError"
          /\ cOut.message = "Failed to load YOLOv8 model"
          /\ ~cOut.is_loaded

\* C32: inference is never run on an unloaded model: no call of the model
\* is made while is_loaded is false, a service instance exists only with a
\* loaded model, a constructor whose load_model failed raised RuntimeError
\* and left no instance, and predict on an unloaded model raises
\* RuntimeError.
C32_LoadBeforePredict ==
    cIn.kind = "model" =>
       /\ cOut.unloaded_runs = 0
       /\ cOut.service = "exists" => cOut.is_loaded
       /\ (cOut.op = "RoadQualityService" /\ ~cOut.is_loaded) =>
             (cOut.raised = "RuntimeError" /\ cOut.service = "none")
       /\ (cOut.op = "predict" /\ ~cOut.is_loaded) => cOut.raised = "RuntimeError"

\* predict was called on a model whose load had failed, and a constructor
\* of the service failed.
C32_Witness ==
    /\ cIn.kind = "model"
    /\ cPc = "done"
    /\ cOut.op = "predict"
    /\ cOut.raised = "RuntimeError"
    /\ cOut.inference_runs = 0
    /\ ~cOut.is_loaded

\* C33: the primary key is authoritative: a call for an image with a native
\* id is reported as a duplicate only of a stored photo with the same
\* (source, source_image_id); an image whose key matches no stored photo is
\* not reported as a duplicate because of a photo with another native id at
\* the same location and capture time.
C33_PrimaryKeyIsAuthoritative ==
    \A j \in 1..Len(log) :
        (log[j].kind = "duplicate" /\ log[j].meta.source_image_id # "") =>
            \A p \in photos :
                p.id = log[j].photo_id => SamePrimaryKey(log[j].meta, p)

\* C34: in process_coordinate_with_db every downloaded image is persisted
\* with the metadata (source id, location, capture time, heading) of the
\* provider entry it was downloaded from, also when the download of an
\* earlier entry of the same point failed and was skipped.
C34_MetadataPairing ==
    (cPc = "done" /\ cIn.kind = "images") =>
        \A i \in 1..Len(cOut.calls) :
            cOut.calls[i].source_image_id = cOut.calls[i].image_path.jpg

CountOf(calls, name) == Cardinality({ i \in 1..Len(calls) : calls[i] = name })

\* C36: for every use of transaction() that got a connection, commit is
\* called exactly when the body finishes without an exception escaping it;
\* rollback is called exactly when the body or the commit raised, and then
\* an exception leaves the with statement (the one that caused the
\* rollback, when rollback and close themselves work); a connection whose
\* commit took effect is not rolled back; and close is called exactly once,
\* as the last call.
C36_TransactionProtocol ==
    (cPc = "done" /\ cIn.kind = "transaction" /\ cOut.body_ran) =>
        /\ CountOf(cOut.calls, "commit") = (IF cIn.body THEN 1 ELSE 0)
        /\ cOut.committed <=> (cIn.body /\ cIn.commit)
        /\ CountOf(cOut.calls, "rollback") =
              (IF ~cIn.body \/ ~cIn.commit THEN 1 ELSE 0)
        /\ CountOf(cOut.calls, "rollback") = 1 =>
              /\ cOut.escaped # "none"
              /\ (cIn.rollback /\ cIn.close) =>
                    cOut.escaped = (IF ~cIn.body THEN "body" ELSE "commit")
        /\ ~(cOut.committed /\ CountOf(cOut.calls, "rollback") > 0)
        /\ CountOf(cOut.calls, "close") = 1
        /\ cOut.calls[Len(cOut.calls)] = "close"

\* A use whose body finished and whose commit failed: rolled back, the
\* commit's exception raised, closed.
C36_Witness ==
    /\ cPc = "done"
    /\ cIn.kind = "transaction"
    /\ cIn.body
    /\ ~cIn.commit
    /\ cOut.calls = <<"commit", "rollback", "close">>
    /\ cOut.escaped = "commit"

\* C37: for every sequence of process_toid_batch calls on one instance, the
\* session_summary returned by each call has success_rate within [0, 100]
\* and processing_errors equal to the number of entries of that call's
\* batch that failed.
C37_SessionStatisticsPerBatch ==
    (cIn.kind = "toid_batches" /\ cOut.calls > 0) =>
        /\ cOut.results.session_summary.success_rate >= 0
        /\ cOut.results.session_summary.success_rate <= 100
        /\ cOut.results.session_summary.processing_errors =
              Cardinality({ i \in 1..Len(cOut.street_data) : cOut.street_data[i] })

InCriticalSection == { w \in Workers : rl_pc[w] \in {"sleep", "append"} }

\* C38: with the workers calling wait_if_needed concurrently on the shared
\* limiter, under fair lock scheduling every call eventually returns, and
\* at most one worker at a time is inside the with block, where the
\* timestamp list is read and modified: it is the holder of the lock, and
\* the list changes only in a step of the holder.
C38_LimiterLiveness ==
    /\ \A w \in Workers : (rl_pc[w] = "acquire") ~> (rl_pc[w] = "idle")
    /\ [](/\ Cardinality(InCriticalSection) <= 1
          /\ \A w \in InCriticalSection : lock = w)
    /\ [][requests_times' # requests_times => (lock # 0 \/ lock' # 0)]_vars

\* A worker waits for the lock while the other one sleeps holding it, after
\* an earlier call has returned.
C38_Witness ==
    \E w, v \in Workers :
        /\ w # v
        /\ rl_pc[w] = "acquire"
        /\ rl_pc[v] = "sleep"
        /\ lock = v
        /\ Len(releases) > 0

====
